---- MODULE Spec2Model ----
(***************************************************************************)
(* The voice session relay of backend/routers/voice.py (voice_session)     *)
(* together with the parts of backend/services/firestore_service.py it     *)
(* calls.  One handler instance runs per WebSocket connection; a handler   *)
(* advances from one await to the next in one atomic step.  Handlers of    *)
(* different connections may run in different server processes (the        *)
(* service is deployed on Cloud Run) and share only the document store,    *)
(* on which every call is one atomic read or one atomic write: no call of  *)
(* FirestoreService uses a transaction.                                    *)
(*                                                                         *)
(* Time is counted in whole minutes since session_start and is known to    *)
(* the model only where the code reads it; texts are sequences of          *)
(* characters so that emptiness, strip() and concatenation are computed,   *)
(* not assumed.  The client is taken to stay connected until the relay     *)
(* starts (the handler has no handling for a send failure before that      *)
(* point).                                                                 *)
(***************************************************************************)
EXTENDS Integers, Sequences, FiniteSets, TLC

\* ------------------------------------------------------------- bounds
\* events of the environment (a message, a timer expiry, a disconnect, a
\* cancellation, a month rollover) that reach the one connection of Spec
MaxEvents == 2
\* the same, for each of the two connections of SpecTwo
MaxEventsTwo == 1
\* the same, for the connection of SpecRelay
MaxEventsRelay == 3
\* fragments of a transcript in SpecCons
MaxFrags == 4
\* month rollovers during a run
MaxRollovers == 1
\* last minute the session clock can reach
MaxClock == 31

\* ------------------------------------------------- program constants
VOICE_MONTHLY_MINUTES_LIMIT == 60
VOICE_SESSION_MAX_MINUTES == 30
FREE_VOICE_TRIAL_MINUTES == 5

\* concurrent connections
Sessions == {1, 2}
Users == {"free_u", "pro_u"}
Convs == {"c1", "c2"}
NoDoc == "no_doc"
\* snapshot.exists is False for voice_usage/{uid}
NoUsage == [exists |-> FALSE, month |-> 0, monthlyMinutes |-> 0, sessions |-> <<>>]
NoOwner == "no_owner"
None == "none"

\* AuthenticatedUser.plan, read from the subscription document at token
\* verification (default "free")
PlanOf(u) == IF u = "pro_u" THEN "pro" ELSE "free"

VARIABLES
    \* ---- document store
    freeVoiceTrialUsed,   \* users/{uid}/subscription/data.freeVoiceTrialUsed
    voice_usage,          \* voice_usage/{uid}: NoUsage or [month, monthlyMinutes, sessions]
    conversations,        \* conversations/{id}: NoDoc, NoOwner or metadata.userId
    titles,               \* conversations/{id}.metadata.title was generated
    messages,             \* conversations/{id}/messages in timestamp order
    month,                \* _current_month_key() as last read
    \* ---- one handler per connection
    pc,                   \* the await the handler is blocked on, or how it ended
    user,                 \* user.uid (None before verification)
    conversation_id,      \* path parameter
    trial_used,           \* local of step 2
    usage,                \* usage.get("monthlyMinutes", 0) as read in step 2
    session_max_minutes,
    setup_data,           \* kind of the reply decoded in step 6
    toClient,             \* frames sent on websocket, in order
    wsClosed,             \* websocket.close() was called
    gemini_ws,            \* "none" | "failed" | "open" | "closed"
    toGemini,             \* frames sent on gemini_ws, in order
    \* ---- relay (step 7)
    session_active,
    transcript_turns,
    clock,                \* minutes since session_start
    c2g, g2c, ka,         \* task positions
    c2gData, g2cMsg,      \* message each pump is processing
    clientGone,           \* the client has disconnected
    upstreamGone,         \* the voice service has closed its connection
    budget,               \* events of the environment still to come
    \* ---- post-session
    duration_min,
    consolidated,
    saveIdx,
    title,                \* title returned by generate_voice_session_title
    snapshot,             \* snapshot read by update_voice_usage
    current_month,        \* local of update_voice_usage
    \* ---- record of the store calls each handler made
    storeLog

storeVars == <<freeVoiceTrialUsed, voice_usage, conversations, titles, messages>>
envVars == <<month>>
gateVars == <<user, conversation_id, trial_used, usage, session_max_minutes,
             setup_data>>
sockVars == <<toClient, wsClosed, gemini_ws, toGemini>>
relayVars == <<session_active, transcript_turns, clock, c2g, g2c, ka, c2gData,
               g2cMsg, clientGone, upstreamGone>>
postVars == <<duration_min, consolidated, saveIdx, title, snapshot, current_month>>
vars == <<storeVars, envVars, pc, gateVars, sockVars, relayVars, postVars, budget,
          storeLog>>

\* ------------------------------------------------------------ frames
Frame(t, r, d) == [type |-> t, role |-> r, data |-> d]
ErrorFrame(m) == Frame("error", None, m)
SetupFrame == Frame("setup", None, None)

SendClient(s, f) == toClient' = [toClient EXCEPT ![s] = Append(@, f)]
Log(s, op) == storeLog' = [storeLog EXCEPT ![s] = Append(@, op)]

\* await websocket.send_json({"type": "error", ...}); await websocket.close(); return
Reject(s, m, end) ==
    /\ SendClient(s, ErrorFrame(m))
    /\ wsClosed' = [wsClosed EXCEPT ![s] = TRUE]
    /\ pc' = [pc EXCEPT ![s] = end]

\* one event of the environment reaches the handler
Spend(s) ==
    /\ budget[s] > 0
    /\ budget' = [budget EXCEPT ![s] = @ - 1]

\* _current_month_key(): the month last read, or the next one
ReadMonth(s, mo) ==
    /\ month' = mo
    /\ IF mo = month THEN UNCHANGED budget ELSE Spend(s)

\* ------------------------------------------------- upstream messages
Absent == <<"absent">>
Msg(a, i, o, tc) == [bad |-> FALSE, id |-> 0, audio |-> a, input |-> i, output |-> o, turn |-> tc]
NoMsg == Msg(0, Absent, Absent, FALSE)
\* a frame json.loads cannot decode
Garbage == [bad |-> TRUE, id |-> 0, audio |-> 0, input |-> Absent, output |-> Absent, turn |-> FALSE]
\* `if text:` for server_content[...].get("text", "")
HasText(x) == x # Absent /\ Len(x) > 0

\* the upstream messages the environment may deliver
UpstreamMsgs ==
    { Msg(2, <<"a">>, <<"b">>, TRUE),
      Msg(0, <<"a">>, Absent, FALSE),
      Msg(0, <<>>, <<" ">>, FALSE),
      NoMsg,
      Garbage }

\* data of client_to_gemini after an end_session message (an audio message
\* is held as the number of its chunk, 0 stands for no message)
EndSession == -1

\* data of client_to_gemini after a frame it could not handle
Malformed == -2

\* data of client_to_gemini after a message whose type is neither audio nor
\* end_session
OtherType == -3

\* the first upstream message, by its top-level key: the acknowledgement of
\* the setup frame, or a decodable message of another shape
SetupReplies == {"setupComplete", "serverContent"}

\* the client messages the environment may deliver
ClientMsgs == {"audio", "end_session", "other", "malformed"}

\* ------------------------------------------------------ usage record
Entry(sid, d) == [sessionId |-> sid, duration |-> d]
UsageDoc(m, total, ss) == [exists |-> TRUE, month |-> m, monthlyMinutes |-> total, sessions |-> ss]

\* seeded fault: a record of an earlier month is returned as it is stored
get_voice_usage_Stale(doc, cur) ==
    IF ~doc.exists THEN UsageDoc(cur, 0, <<>>) ELSE doc

\* FirestoreService.get_voice_usage: a missing record or a record of another
\* month reads as zero minutes; the stored record is not touched
get_voice_usage(doc, cur) ==
    IF ~doc.exists THEN UsageDoc(cur, 0, <<>>)
    ELSE IF doc.month # cur THEN UsageDoc(cur, 0, <<>>)
    ELSE doc

\* ------------------------------------------------------------- Init
\* the month key at the start of a run
FirstMonth == 1

InitUsage ==
    { NoUsage,
      UsageDoc(FirstMonth, 58, <<Entry("c1", 28), Entry("c1", 30)>>),
      UsageDoc(FirstMonth, 60, <<Entry("c1", 30), Entry("c1", 30)>>) }

\* the months the clock can show
MonthNow == {m \in month .. FirstMonth + MaxRollovers : TRUE}

\* the state of every connection before its handler has run: the connections
\* in `live` are accepted, budgets[s] events will reach the relay of s
InitSessions(live, budgets) ==
    /\ pc = [s \in Sessions |-> IF s \in live THEN "auth" ELSE "idle"]
    /\ budget = budgets
    /\ user = [s \in Sessions |-> None]
    /\ conversation_id \in [Sessions -> Convs]
    /\ \A s \in Sessions \ live : conversation_id[s] = "c1"
    /\ trial_used = [s \in Sessions |-> FALSE]
    /\ usage = [s \in Sessions |-> 0]
    /\ session_max_minutes = [s \in Sessions |-> 0]
    /\ setup_data = [s \in Sessions |-> None]
    /\ toClient = [s \in Sessions |-> <<>>]
    /\ wsClosed = [s \in Sessions |-> FALSE]
    /\ gemini_ws = [s \in Sessions |-> "none"]
    /\ toGemini = [s \in Sessions |-> <<>>]
    /\ session_active = [s \in Sessions |-> FALSE]
    /\ transcript_turns = [s \in Sessions |-> <<>>]
    /\ clock = [s \in Sessions |-> 0]
    /\ c2g = [s \in Sessions |-> "idle"]
    /\ g2c = [s \in Sessions |-> "idle"]
    /\ ka = [s \in Sessions |-> "idle"]
    /\ c2gData = [s \in Sessions |-> 0]
    /\ g2cMsg = [s \in Sessions |-> NoMsg]
    /\ clientGone = [s \in Sessions |-> FALSE]
    /\ upstreamGone = [s \in Sessions |-> FALSE]
    /\ duration_min = [s \in Sessions |-> 0]
    /\ consolidated = [s \in Sessions |-> <<>>]
    /\ saveIdx = [s \in Sessions |-> 0]
    /\ title = [s \in Sessions |-> None]
    /\ snapshot = [s \in Sessions |-> NoUsage]
    /\ current_month = [s \in Sessions |-> 0]
    /\ storeLog = [s \in Sessions |-> <<>>]

\* the store before any voice session of this run: no trial taken, the pro
\* user's usage record absent or left by earlier sessions, one conversation
\* of the pro user
InitStore ==
    /\ freeVoiceTrialUsed = [u \in Users |-> FALSE]
    /\ \E doc \in InitUsage :
          voice_usage = [u \in Users |-> IF u = "pro_u" THEN doc ELSE NoUsage]
    /\ conversations = [c \in Convs |-> IF c = "c1" THEN "pro_u" ELSE NoDoc]
    /\ titles = [c \in Convs |-> FALSE]
    /\ messages = [c \in Convs |-> <<>>]
    /\ month = FirstMonth

Init ==
    /\ InitStore
    /\ InitSessions({1}, [s \in Sessions |-> IF s = 1 THEN MaxEvents ELSE 0])

InitTwo ==
    /\ InitStore
    /\ InitSessions(Sessions, [s \in Sessions |-> MaxEventsTwo])

\* ----------------------------------------------- step 1: authentication
\* seeded fault: the connection is closed without an error frame
AuthFail_Silent(s) ==
    /\ pc[s] = "auth"
    /\ wsClosed' = [wsClosed EXCEPT ![s] = TRUE]
    /\ pc' = [pc EXCEPT ![s] = "auth_failed"]
    /\ UNCHANGED <<storeVars, envVars, gateVars, toClient, gemini_ws, toGemini,
                   relayVars, budget, postVars, storeLog>>

\* verify_ws_token(token): a missing or rejected token raises; the handler
\* answers with one error frame and closes
AuthFail(s) ==
    /\ pc[s] = "auth"
    /\ Reject(s, "Authentication failed", "auth_failed")
    /\ UNCHANGED <<storeVars, envVars, gateVars, gemini_ws, toGemini, relayVars, budget,
                   postVars, storeLog>>

AuthOk(s, u) ==
    /\ pc[s] = "auth"
    /\ user' = [user EXCEPT ![s] = u]
    /\ pc' = [pc EXCEPT ![s] = IF PlanOf(u) = "free" THEN "trial_read" ELSE "usage_read"]
    /\ UNCHANGED <<storeVars, envVars, conversation_id, setup_data, trial_used, usage,
                   session_max_minutes, sockVars, relayVars, budget, postVars, storeLog>>

\* ------------------------------------------- step 2: voice access check
\* seeded fault: a denied trial leaves the connection open
is_voice_trial_used_NoClose(s) ==
    /\ pc[s] = "trial_read"
    /\ trial_used' = [trial_used EXCEPT ![s] = freeVoiceTrialUsed[user[s]]]
    /\ IF freeVoiceTrialUsed[user[s]]
       THEN /\ SendClient(s, ErrorFrame("You've used your free voice session"))
            /\ pc' = [pc EXCEPT ![s] = "denied"]
       ELSE /\ pc' = [pc EXCEPT ![s] = "trial_mark"]
            /\ UNCHANGED toClient
    /\ UNCHANGED <<storeVars, envVars, user, conversation_id, setup_data, usage, session_max_minutes,
                   wsClosed, gemini_ws, toGemini, relayVars, budget, postVars, storeLog>>

\* trial_used = await firestore.is_voice_trial_used(user.uid)
is_voice_trial_used(s) ==
    /\ pc[s] = "trial_read"
    /\ trial_used' = [trial_used EXCEPT ![s] = freeVoiceTrialUsed[user[s]]]
    /\ IF freeVoiceTrialUsed[user[s]]
       THEN /\ Reject(s, "You've used your free voice session", "denied")
            /\ UNCHANGED session_max_minutes
       ELSE /\ pc' = [pc EXCEPT ![s] = "trial_mark"]
            /\ UNCHANGED <<toClient, wsClosed, session_max_minutes>>
    /\ UNCHANGED <<storeVars, envVars, user, conversation_id, setup_data, usage, gemini_ws,
                   toGemini, relayVars, budget, postVars, storeLog>>

\* await firestore.mark_voice_trial_used(user.uid); then the session limit
mark_voice_trial_used(s) ==
    /\ pc[s] = "trial_mark"
    /\ freeVoiceTrialUsed' = [freeVoiceTrialUsed EXCEPT ![user[s]] = TRUE]
    /\ Log(s, "mark_voice_trial_used")
    /\ session_max_minutes' = [session_max_minutes EXCEPT ![s] = FREE_VOICE_TRIAL_MINUTES]
    /\ pc' = [pc EXCEPT ![s] = "conv_exists"]
    /\ UNCHANGED <<voice_usage, conversations, titles, messages, envVars, user,
                   conversation_id, setup_data, trial_used, usage, sockVars, relayVars, budget, postVars>>

\* seeded fault: the ceiling itself still passes
OverMonthlyLimit_Above(minutes) == minutes > VOICE_MONTHLY_MINUTES_LIMIT

\* the monthly ceiling test of the pro branch
OverMonthlyLimit(minutes) == minutes >= VOICE_MONTHLY_MINUTES_LIMIT

\* usage = await firestore.get_voice_usage(user.uid)
ProGate(s, mo) ==
    /\ pc[s] = "usage_read"
    /\ ReadMonth(s, mo)
    /\ LET read == get_voice_usage(voice_usage[user[s]], mo).monthlyMinutes IN
       /\ usage' = [usage EXCEPT ![s] = read]
       /\ IF OverMonthlyLimit(read)
          THEN /\ Reject(s, "Monthly voice limit reached (60 minutes)", "denied")
               /\ UNCHANGED session_max_minutes
          ELSE /\ pc' = [pc EXCEPT ![s] = "conv_exists"]
               /\ session_max_minutes' =
                      [session_max_minutes EXCEPT ![s] = VOICE_SESSION_MAX_MINUTES]
               /\ UNCHANGED <<toClient, wsClosed>>
    /\ UNCHANGED <<storeVars, user, conversation_id, setup_data, trial_used, gemini_ws,
                   toGemini, relayVars, postVars, storeLog>>

\* ------------------------------ step 4: conversation and ownership check
\* await firestore.conversation_exists(conversation_id)
conversation_exists(s) ==
    /\ pc[s] = "conv_exists"
    /\ pc' = [pc EXCEPT ![s] = IF conversations[conversation_id[s]] # NoDoc
                                THEN "conv_owner" ELSE "conv_create"]
    /\ UNCHANGED <<storeVars, envVars, gateVars, sockVars, relayVars, budget, postVars, storeLog>>

\* owner_id is not None and owner_id != user.uid
Forbidden(owner, uid) == owner # NoDoc /\ owner # NoOwner /\ owner # uid

\* owner_id = await firestore.get_conversation_owner(conversation_id)
get_conversation_owner(s) ==
    /\ pc[s] = "conv_owner"
    /\ IF Forbidden(conversations[conversation_id[s]], user[s])
       THEN Reject(s, "Forbidden", "forbidden")
       ELSE /\ pc' = [pc EXCEPT ![s] = "connect"]
            /\ UNCHANGED <<toClient, wsClosed>>
    /\ UNCHANGED <<storeVars, envVars, gateVars, gemini_ws, toGemini, relayVars, budget,
                   postVars, storeLog>>

\* await firestore.create_conversation(...): doc.set overwrites
create_conversation(s) ==
    /\ pc[s] = "conv_create"
    /\ conversations' = [conversations EXCEPT ![conversation_id[s]] = user[s]]
    /\ titles' = [titles EXCEPT ![conversation_id[s]] = FALSE]
    /\ Log(s, "create_conversation")
    /\ pc' = [pc EXCEPT ![s] = "connect"]
    /\ UNCHANGED <<freeVoiceTrialUsed, voice_usage, messages, envVars, gateVars,
                   sockVars, relayVars, budget, postVars>>

\* seeded fault: a failed connect gives the trial back
ConnectFail_Refund(s) ==
    /\ pc[s] = "connect"
    /\ gemini_ws' = [gemini_ws EXCEPT ![s] = "failed"]
    /\ freeVoiceTrialUsed' = [freeVoiceTrialUsed EXCEPT ![user[s]] = FALSE]
    /\ Reject(s, "Failed to connect to voice service", "connect_failed")
    /\ UNCHANGED <<voice_usage, conversations, titles, messages, envVars, gateVars,
                   toGemini, relayVars, budget, postVars, storeLog>>

\* ------------------------------------------- step 5: upstream connect
\* get_google_access_token() / websockets.connect(...) raised
ConnectFail(s) ==
    /\ pc[s] = "connect"
    /\ gemini_ws' = [gemini_ws EXCEPT ![s] = "failed"]
    /\ Reject(s, "Failed to connect to voice service", "connect_failed")
    /\ UNCHANGED <<storeVars, envVars, gateVars, toGemini, relayVars, budget, postVars, storeLog>>

ConnectOk(s) ==
    /\ pc[s] = "connect"
    /\ gemini_ws' = [gemini_ws EXCEPT ![s] = "open"]
    /\ pc' = [pc EXCEPT ![s] = "setup_send"]
    /\ UNCHANGED <<storeVars, envVars, gateVars, toClient, wsClosed, toGemini,
                   relayVars, budget, postVars, storeLog>>

\* ------------------------------------------------ step 6: handshake
\* seeded fault: the relay is started as soon as the setup frame is sent,
\* without awaiting the reply
SetupSend_NoWait(s) ==
    /\ pc[s] = "setup_send"
    /\ toGemini' = [toGemini EXCEPT ![s] = Append(@, SetupFrame)]
    /\ pc' = [pc EXCEPT ![s] = "relay"]
    /\ session_active' = [session_active EXCEPT ![s] = TRUE]
    /\ c2g' = [c2g EXCEPT ![s] = "recv"]
    /\ g2c' = [g2c EXCEPT ![s] = "recv"]
    /\ ka' = [ka EXCEPT ![s] = "sleep"]
    /\ UNCHANGED <<storeVars, envVars, gateVars, toClient, wsClosed, gemini_ws,
                   transcript_turns, clock, c2gData, g2cMsg, clientGone, upstreamGone,
                   budget, postVars, storeLog>>

\* await gemini_ws.send(json.dumps(setup_msg)) stands outside every try
SetupSend(s) ==
    /\ pc[s] = "setup_send"
    /\ toGemini' = [toGemini EXCEPT ![s] = Append(@, SetupFrame)]
    /\ pc' = [pc EXCEPT ![s] = "setup_recv"]
    /\ UNCHANGED <<storeVars, envVars, gateVars, toClient, wsClosed, gemini_ws,
                   relayVars, budget, postVars, storeLog>>

\* the exception of a failed handshake step leaves voice_session: nothing
\* after the raising line runs
Crash(s, gone) ==
    /\ upstreamGone' = [upstreamGone EXCEPT ![s] = gone]
    /\ pc' = [pc EXCEPT ![s] = "crashed"]
    /\ UNCHANGED <<storeVars, envVars, gateVars, sockVars, session_active,
                   transcript_turns, clock, c2g, g2c, ka, c2gData, g2cMsg, clientGone, budget, postVars, storeLog>>

\* the send of the setup frame raises (connection lost)
SetupSendFail(s) ==
    /\ pc[s] = "setup_send"
    /\ Crash(s, TRUE)

\* seeded fault: the timeout leaves the upstream connection open
SetupTimeout_LeaveOpen(s) ==
    /\ pc[s] = "setup_recv"
    /\ Reject(s, "Voice service timed out during setup", "setup_timeout")
    /\ UNCHANGED <<storeVars, envVars, gateVars, gemini_ws, toGemini, relayVars, budget,
                   postVars, storeLog>>

\* seeded fault: after a timeout the setup frame is sent again
SetupTimeout_Retry(s) ==
    /\ pc[s] = "setup_recv"
    /\ pc' = [pc EXCEPT ![s] = "setup_send"]
    /\ UNCHANGED <<storeVars, envVars, gateVars, sockVars, relayVars, budget,
                   postVars, storeLog>>

\* except asyncio.TimeoutError: no message within the 10 s
SetupTimeout(s) ==
    /\ pc[s] = "setup_recv"
    /\ gemini_ws' = [gemini_ws EXCEPT ![s] = "closed"]
    /\ Reject(s, "Voice service timed out during setup", "setup_timeout")
    /\ UNCHANGED <<storeVars, envVars, gateVars, toGemini, relayVars, budget, postVars, storeLog>>

\* recv() raises ConnectionClosed (closed), or json.loads raises on the
\* reply: neither is a TimeoutError
SetupRecvFail(s, closed) ==
    /\ pc[s] = "setup_recv"
    /\ Crash(s, closed)

\* seeded fault: a reply that is not the acknowledgement fails the handshake
\* the way a timeout does
SetupReply_Strict(s, reply) ==
    /\ pc[s] = "setup_recv"
    /\ setup_data' = [setup_data EXCEPT ![s] = reply]
    /\ IF reply = "setupComplete"
          THEN /\ pc' = [pc EXCEPT ![s] = "relay"]
               /\ session_active' = [session_active EXCEPT ![s] = TRUE]
               /\ c2g' = [c2g EXCEPT ![s] = "recv"]
               /\ g2c' = [g2c EXCEPT ![s] = "recv"]
               /\ ka' = [ka EXCEPT ![s] = "sleep"]
               /\ UNCHANGED sockVars
          ELSE /\ gemini_ws' = [gemini_ws EXCEPT ![s] = "closed"]
               /\ Reject(s, "Voice service timed out during setup", "setup_timeout")
               /\ UNCHANGED <<toGemini, session_active, c2g, g2c, ka>>
    /\ UNCHANGED <<storeVars, envVars, user, conversation_id, trial_used, usage,
                   session_max_minutes, transcript_turns, clock, c2gData, g2cMsg,
                   clientGone, upstreamGone, budget, postVars, storeLog>>

\* a decodable first message, setupComplete or not: step 7 starts
\* (session_start = time.time(); transcript_turns = []; session_active = True)
\* and gather() runs each task up to its first await
SetupReply(s, reply) ==
    /\ pc[s] = "setup_recv"
    /\ setup_data' = [setup_data EXCEPT ![s] = reply]
    /\ pc' = [pc EXCEPT ![s] = "relay"]
    /\ session_active' = [session_active EXCEPT ![s] = TRUE]
    /\ transcript_turns' = [transcript_turns EXCEPT ![s] = <<>>]
    /\ clock' = [clock EXCEPT ![s] = 0]
    /\ c2g' = [c2g EXCEPT ![s] = "recv"]
    /\ g2c' = [g2c EXCEPT ![s] = "recv"]
    /\ ka' = [ka EXCEPT ![s] = "sleep"]
    /\ UNCHANGED <<storeVars, envVars, user, conversation_id, trial_used, usage,
                   session_max_minutes, sockVars, c2gData, g2cMsg, clientGone,
                   upstreamGone, budget, postVars, storeLog>>

\* ------------------------------------------------- step 7: the relay
\* time.time() is read at the time check and at the end of the relay; a read
\* returns the last value read or a later instant around a threshold the code
\* compares against (minutes since session_start)
Instants(max) == {t \in 1..MaxClock : t \in {max - 5, max - 1, max, max + 1}}
Now(s) == {clock[s]} \cup {t \in Instants(session_max_minutes[s]) : t > clock[s]}

\* the client goes away; from then on every send_json raises
ClientDisconnect(s) ==
    /\ pc[s] = "relay"
    /\ ~clientGone[s]
    /\ Spend(s)
    /\ clientGone' = [clientGone EXCEPT ![s] = TRUE]
    /\ UNCHANGED <<storeVars, envVars, pc, gateVars, sockVars, session_active,
                   transcript_turns, clock, c2g, g2c, ka, c2gData, g2cMsg,
                   upstreamGone, postVars, storeLog>>

\* the voice service closes its connection; from then on gemini_ws.send raises
UpstreamClose(s) ==
    /\ pc[s] = "relay"
    /\ ~upstreamGone[s]
    /\ Spend(s)
    /\ upstreamGone' = [upstreamGone EXCEPT ![s] = TRUE]
    /\ UNCHANGED <<storeVars, envVars, pc, gateVars, sockVars, session_active,
                   transcript_turns, clock, c2g, g2c, ka, c2gData, g2cMsg,
                   clientGone, postVars, storeLog>>

\* seeded fault: a frame that cannot be handled is passed over
C2GRecv_Lenient(s, d) ==
    /\ pc[s] = "relay" /\ c2g[s] = "recv" /\ ~clientGone[s]
    /\ Spend(s)
    /\ IF ~session_active[s]
       THEN \* if not session_active: break
            /\ c2g' = [c2g EXCEPT ![s] = "done"]
            /\ UNCHANGED <<session_active, c2gData>>
       ELSE CASE d = "audio" ->
                   /\ c2gData' = [c2gData EXCEPT ![s] = budget[s]]
                   /\ c2g' = [c2g EXCEPT ![s] = "send_up"]
                   /\ UNCHANGED session_active
              [] d = "end_session" ->
                   /\ session_active' = [session_active EXCEPT ![s] = FALSE]
                   /\ c2g' = [c2g EXCEPT ![s] = "done"]
                   /\ c2gData' = [c2gData EXCEPT ![s] = EndSession]
              [] d = "other" ->
                   /\ c2gData' = [c2gData EXCEPT ![s] = OtherType]
                   /\ UNCHANGED <<session_active, c2g>>
              [] OTHER ->
                   /\ c2gData' = [c2gData EXCEPT ![s] = Malformed]
                   /\ UNCHANGED <<session_active, c2g>>
    /\ UNCHANGED <<storeVars, envVars, pc, gateVars, sockVars, transcript_turns, clock,
                   g2c, ka, g2cMsg, clientGone, upstreamGone, postVars,
                   storeLog>>

\* seeded fault: a message of a type the pump does not know ends the session
C2GRecv_StopOnOther(s, d) ==
    /\ pc[s] = "relay" /\ c2g[s] = "recv" /\ ~clientGone[s]
    /\ Spend(s)
    /\ IF ~session_active[s]
       THEN /\ c2g' = [c2g EXCEPT ![s] = "done"]
            /\ UNCHANGED <<session_active, c2gData>>
       ELSE CASE d = "audio" ->
                   /\ c2gData' = [c2gData EXCEPT ![s] = budget[s]]
                   /\ c2g' = [c2g EXCEPT ![s] = "send_up"]
                   /\ UNCHANGED session_active
              [] d = "end_session" ->
                   /\ session_active' = [session_active EXCEPT ![s] = FALSE]
                   /\ c2g' = [c2g EXCEPT ![s] = "done"]
                   /\ c2gData' = [c2gData EXCEPT ![s] = EndSession]
              [] d = "other" ->
                   /\ session_active' = [session_active EXCEPT ![s] = FALSE]
                   /\ c2g' = [c2g EXCEPT ![s] = "done"]
                   /\ c2gData' = [c2gData EXCEPT ![s] = OtherType]
              [] OTHER ->
                   /\ session_active' = [session_active EXCEPT ![s] = FALSE]
                   /\ c2g' = [c2g EXCEPT ![s] = "done"]
                   /\ c2gData' = [c2gData EXCEPT ![s] = Malformed]
    /\ UNCHANGED <<storeVars, envVars, pc, gateVars, sockVars, transcript_turns, clock,
                   g2c, ka, g2cMsg, clientGone, upstreamGone, postVars,
                   storeLog>>

\* ---- client_to_gemini
\* async for msg in websocket.iter_text(): one message arrives
C2GRecv(s, d) ==
    /\ pc[s] = "relay" /\ c2g[s] = "recv" /\ ~clientGone[s]
    /\ Spend(s)
    /\ IF ~session_active[s]
       THEN \* if not session_active: break
            /\ c2g' = [c2g EXCEPT ![s] = "done"]
            /\ UNCHANGED <<session_active, c2gData>>
       ELSE CASE d = "audio" ->
                   /\ c2gData' = [c2gData EXCEPT ![s] = budget[s]]
                   /\ c2g' = [c2g EXCEPT ![s] = "send_up"]
                   /\ UNCHANGED session_active
              [] d = "end_session" ->
                   /\ session_active' = [session_active EXCEPT ![s] = FALSE]
                   /\ c2g' = [c2g EXCEPT ![s] = "done"]
                   /\ c2gData' = [c2gData EXCEPT ![s] = EndSession]
              [] d = "other" ->
                   /\ c2gData' = [c2gData EXCEPT ![s] = OtherType]
                   /\ UNCHANGED <<session_active, c2g>>
              [] OTHER ->
                   \* json.loads / data["type"] / data["data"] raises: except Exception
                   /\ session_active' = [session_active EXCEPT ![s] = FALSE]
                   /\ c2g' = [c2g EXCEPT ![s] = "done"]
                   /\ c2gData' = [c2gData EXCEPT ![s] = Malformed]
    /\ UNCHANGED <<storeVars, envVars, pc, gateVars, sockVars, transcript_turns, clock,
                   g2c, ka, g2cMsg, clientGone, upstreamGone, postVars,
                   storeLog>>

\* the client is gone: the iterator ends (raised = FALSE, session_active is
\* left as it is) or WebSocketDisconnect reaches the except clause
C2GDisconnected(s, raised) ==
    /\ pc[s] = "relay" /\ c2g[s] = "recv" /\ clientGone[s]
    /\ c2g' = [c2g EXCEPT ![s] = "done"]
    /\ session_active' = [session_active EXCEPT ![s] = IF raised THEN FALSE ELSE @]
    /\ UNCHANGED <<storeVars, envVars, pc, gateVars, sockVars, transcript_turns, clock,
                   g2c, ka, c2gData, g2cMsg, clientGone, upstreamGone, budget,
                   postVars, storeLog>>

\* await gemini_ws.send(json.dumps({"realtime_input": ...})) completes
C2GSend(s) ==
    /\ pc[s] = "relay" /\ c2g[s] = "send_up"
    /\ IF upstreamGone[s]
       THEN /\ session_active' = [session_active EXCEPT ![s] = FALSE]
            /\ c2g' = [c2g EXCEPT ![s] = "done"]
            /\ UNCHANGED toGemini
       ELSE /\ toGemini' = [toGemini EXCEPT ![s] = Append(@, Frame("audio", None, c2gData[s]))]
            /\ c2g' = [c2g EXCEPT ![s] = "recv"]
            /\ UNCHANGED session_active
    /\ c2gData' = [c2gData EXCEPT ![s] = 0]
    /\ UNCHANGED <<storeVars, envVars, pc, gateVars, toClient, wsClosed, gemini_ws,
                   transcript_turns, clock, g2c, ka, g2cMsg, clientGone,
                   upstreamGone, budget, postVars, storeLog>>

\* seeded fault: a check made exactly at the maximum lets the session go on
LimitReached_Late(e, max) == e > max

\* ---- gemini_to_client
\* elapsed >= session_max_minutes
LimitReached(e, max) == e >= max

\* seeded fault: the one-minute window is used for every plan
WarningDue_OneWindow(plan, remaining) == 9 <= 10 * remaining /\ 10 * remaining <= 11

\* the tolerance windows of the time warnings, in tenths of a minute
WarningDue(plan, remaining) ==
    IF plan = "free" THEN 9 <= 10 * remaining /\ 10 * remaining <= 11
    ELSE plan = "pro" /\ 49 <= 10 * remaining /\ 10 * remaining <= 51

\* the next send of the loop body for message m, from part `from` on:
\* 1 audio part, 2 input transcript, 3 output transcript, 4 turn complete,
\* 5 the time check
Stage(m, from) ==
    IF from <= 1 /\ m.audio > 0 THEN 1
    ELSE IF from <= 2 /\ HasText(m.input) THEN 2
    ELSE IF from <= 3 /\ HasText(m.output) THEN 3
    ELSE IF from <= 4 /\ m.turn THEN 4
    ELSE 5

\* where the loop body blocks after the time check made at `now`
AfterCheck(s, now) ==
    IF LimitReached(now, session_max_minutes[s]) THEN "send_limit"
    ELSE IF WarningDue(PlanOf(user[s]), session_max_minutes[s] - now) THEN "send_warn"
    ELSE "recv"

\* seeded fault: a transcript is put in front of the fragments collected
G2CRun_Prepend(s, m, from, now) ==
    LET st == Stage(m, from) IN
    /\ st # 5 => now = clock[s]
    /\ clock' = [clock EXCEPT ![s] = now]
    /\ g2cMsg' = [g2cMsg EXCEPT ![s] = IF st = 5 THEN NoMsg ELSE m]
    /\ transcript_turns' = [transcript_turns EXCEPT ![s] =
           IF st = 2 THEN <<<<"user", m.input>>>> \o @
           ELSE IF st = 3 THEN <<<<"assistant", m.output>>>> \o @
           ELSE @]
    /\ g2c' = [g2c EXCEPT ![s] =
           CASE st = 1 -> "send_audio"
             [] st = 2 -> "send_in"
             [] st = 3 -> "send_out"
             [] st = 4 -> "send_turn"
             [] OTHER -> AfterCheck(s, now)]

\* seeded fault: an output transcription is sent without being collected
G2CRun_Unstored(s, m, from, now) ==
    LET st == Stage(m, from) IN
    /\ st # 5 => now = clock[s]
    /\ clock' = [clock EXCEPT ![s] = now]
    /\ g2cMsg' = [g2cMsg EXCEPT ![s] = IF st = 5 THEN NoMsg ELSE m]
    /\ transcript_turns' = [transcript_turns EXCEPT ![s] =
           IF st = 2 THEN Append(@, <<"user", m.input>>) ELSE @]
    /\ g2c' = [g2c EXCEPT ![s] =
           CASE st = 1 -> "send_audio"
             [] st = 2 -> "send_in"
             [] st = 3 -> "send_out"
             [] st = 4 -> "send_turn"
             [] OTHER -> AfterCheck(s, now)]

\* gemini_to_client runs from part `from` of m to its next await; a transcript
\* is appended before it is sent; the time check reads the clock into
\* `elapsed` (clock[s] keeps it) and is the last use of the message
G2CRun(s, m, from, now) ==
    LET st == Stage(m, from) IN
    /\ st # 5 => now = clock[s]
    /\ clock' = [clock EXCEPT ![s] = now]
    /\ g2cMsg' = [g2cMsg EXCEPT ![s] = IF st = 5 THEN NoMsg ELSE m]
    /\ transcript_turns' = [transcript_turns EXCEPT ![s] =
           IF st = 2 THEN Append(@, <<"user", m.input>>)
           ELSE IF st = 3 THEN Append(@, <<"assistant", m.output>>)
           ELSE @]
    /\ g2c' = [g2c EXCEPT ![s] =
           CASE st = 1 -> "send_audio"
             [] st = 2 -> "send_in"
             [] st = 3 -> "send_out"
             [] st = 4 -> "send_turn"
             [] OTHER -> AfterCheck(s, now)]

\* gemini_to_client leaves its loop
G2CStop(s, flag) ==
    /\ g2c' = [g2c EXCEPT ![s] = "done"]
    /\ session_active' = [session_active EXCEPT ![s] = flag]
    /\ g2cMsg' = [g2cMsg EXCEPT ![s] = NoMsg]
    /\ UNCHANGED <<transcript_turns, clock>>

\* seeded fault: the loop does not look at session_active
G2CRecv_Deaf(s, m, now) ==
    /\ pc[s] = "relay" /\ g2c[s] = "recv" /\ ~upstreamGone[s]
    /\ Spend(s)
    /\ IF m.bad
       THEN now = clock[s] /\ G2CStop(s, FALSE)
       ELSE /\ G2CRun(s, [m EXCEPT !.id = budget[s]], 1, now)
            /\ UNCHANGED session_active
    /\ UNCHANGED <<storeVars, envVars, pc, gateVars, sockVars, c2g, ka, c2gData,
                   clientGone, upstreamGone, postVars, storeLog>>

\* async for msg in gemini_ws: one message arrives
G2CRecv(s, m, now) ==
    /\ pc[s] = "relay" /\ g2c[s] = "recv" /\ ~upstreamGone[s]
    /\ Spend(s)
    /\ IF ~session_active[s]
       THEN \* if not session_active: break
            now = clock[s] /\ G2CStop(s, FALSE)
       ELSE IF m.bad
       THEN \* json.loads raises: except Exception
            now = clock[s] /\ G2CStop(s, FALSE)
       ELSE /\ G2CRun(s, [m EXCEPT !.id = budget[s]], 1, now)
            /\ UNCHANGED session_active
    /\ UNCHANGED <<storeVars, envVars, pc, gateVars, sockVars, c2g, ka, c2gData,
                   clientGone, upstreamGone, postVars, storeLog>>

\* the upstream is closed: the iterator ends (raised = FALSE, a normal close,
\* session_active is left as it is) or ConnectionClosed reaches the except clause
G2CClosed(s, raised) ==
    /\ pc[s] = "relay" /\ g2c[s] = "recv" /\ upstreamGone[s]
    /\ G2CStop(s, IF raised THEN FALSE ELSE session_active[s])
    /\ UNCHANGED <<storeVars, envVars, pc, gateVars, sockVars, c2g, ka, c2gData,
                   clientGone, upstreamGone, budget, postVars, storeLog>>

\* seeded fault: the limit notice has the pro wording for every plan
G2CFrame_OneWording(s) ==
    CASE g2c[s] = "send_audio" -> Frame("audio", None, <<g2cMsg[s].id, g2cMsg[s].audio>>)
      [] g2c[s] = "send_in" -> Frame("transcript", "user", g2cMsg[s].input)
      [] g2c[s] = "send_out" -> Frame("transcript", "assistant", g2cMsg[s].output)
      [] g2c[s] = "send_turn" -> Frame("turn_complete", None, None)
      [] g2c[s] = "send_limit" -> ErrorFrame("Session time limit reached (30 minutes)")
      [] OTHER -> Frame("transcript", "assistant",
                        IF PlanOf(user[s]) = "free"
                        THEN <<"[1 minute remaining in your free session]">>
                        ELSE <<"[5 minutes remaining in session]">>)

\* the frame gemini_to_client is sending
G2CFrame(s) ==
    CASE g2c[s] = "send_audio" -> Frame("audio", None, <<g2cMsg[s].id, g2cMsg[s].audio>>)
      [] g2c[s] = "send_in" -> Frame("transcript", "user", g2cMsg[s].input)
      [] g2c[s] = "send_out" -> Frame("transcript", "assistant", g2cMsg[s].output)
      [] g2c[s] = "send_turn" -> Frame("turn_complete", None, None)
      [] g2c[s] = "send_limit" ->
             ErrorFrame(IF PlanOf(user[s]) = "free"
                        THEN "Free voice session complete (5 minutes)"
                        ELSE "Session time limit reached (30 minutes)")
      [] OTHER -> Frame("transcript", "assistant",
                        IF PlanOf(user[s]) = "free"
                        THEN <<"[1 minute remaining in your free session]">>
                        ELSE <<"[5 minutes remaining in session]">>)

G2CSending == {"send_audio", "send_in", "send_out", "send_turn", "send_limit", "send_warn"}

\* seeded fault: a notice that was sent is also collected as a fragment
G2CSend_CollectNotice(s, now) ==
    /\ pc[s] = "relay" /\ g2c[s] \in G2CSending
    /\ IF clientGone[s]
       THEN /\ now = clock[s] /\ G2CStop(s, FALSE)
            /\ UNCHANGED toClient
       ELSE /\ SendClient(s, G2CFrame(s))
            /\ CASE g2c[s] = "send_audio" ->
                      /\ G2CRun(s, [g2cMsg[s] EXCEPT !.audio = @ - 1], 1, now)
                      /\ UNCHANGED session_active
                 [] g2c[s] = "send_in" ->
                      /\ G2CRun(s, g2cMsg[s], 3, now)
                      /\ UNCHANGED session_active
                 [] g2c[s] = "send_out" ->
                      /\ G2CRun(s, g2cMsg[s], 4, now)
                      /\ UNCHANGED session_active
                 [] g2c[s] = "send_turn" ->
                      /\ G2CRun(s, g2cMsg[s], 5, now)
                      /\ UNCHANGED session_active
                 [] g2c[s] = "send_limit" ->
                      now = clock[s] /\ G2CStop(s, FALSE)
                 [] OTHER ->
                      /\ now = clock[s]
                      /\ g2c' = [g2c EXCEPT ![s] = "recv"]
                      /\ transcript_turns' = [transcript_turns EXCEPT ![s] =
                             Append(@, <<"assistant", G2CFrame(s).data>>)]
                      /\ UNCHANGED <<session_active, g2cMsg, clock>>
    /\ UNCHANGED <<storeVars, envVars, pc, gateVars, wsClosed, gemini_ws, toGemini,
                   c2g, ka, c2gData, clientGone, upstreamGone, budget, postVars,
                   storeLog>>

\* await websocket.send_json(...) of gemini_to_client completes
G2CSend(s, now) ==
    /\ pc[s] = "relay" /\ g2c[s] \in G2CSending
    /\ IF clientGone[s]
       THEN \* the send raises: except Exception
            /\ now = clock[s] /\ G2CStop(s, FALSE)
            /\ UNCHANGED toClient
       ELSE /\ SendClient(s, G2CFrame(s))
            /\ CASE g2c[s] = "send_audio" ->
                      /\ G2CRun(s, [g2cMsg[s] EXCEPT !.audio = @ - 1], 1, now)
                      /\ UNCHANGED session_active
                 [] g2c[s] = "send_in" ->
                      /\ G2CRun(s, g2cMsg[s], 3, now)
                      /\ UNCHANGED session_active
                 [] g2c[s] = "send_out" ->
                      /\ G2CRun(s, g2cMsg[s], 4, now)
                      /\ UNCHANGED session_active
                 [] g2c[s] = "send_turn" ->
                      /\ G2CRun(s, g2cMsg[s], 5, now)
                      /\ UNCHANGED session_active
                 [] g2c[s] = "send_limit" ->
                      \* session_active = False; break
                      now = clock[s] /\ G2CStop(s, FALSE)
                 [] OTHER ->
                      /\ now = clock[s]
                      /\ g2c' = [g2c EXCEPT ![s] = "recv"]
                      /\ UNCHANGED <<session_active, g2cMsg, transcript_turns, clock>>
    /\ UNCHANGED <<storeVars, envVars, pc, gateVars, wsClosed, gemini_ws, toGemini,
                   c2g, ka, c2gData, clientGone, upstreamGone, budget, postVars,
                   storeLog>>

\* ---- keep_alive
\* await asyncio.sleep(30) returns; the ping is sent without looking at
\* session_active again.  A timer expiry counts against the event budget
\* while the session is active.
KaWake(s) ==
    /\ pc[s] = "relay" /\ ka[s] = "sleep"
    /\ session_active[s] => budget[s] > 0
    /\ budget' = [budget EXCEPT ![s] = IF session_active[s] THEN @ - 1 ELSE @]
    /\ ka' = [ka EXCEPT ![s] = "ping"]
    /\ UNCHANGED <<storeVars, envVars, pc, gateVars, sockVars, session_active,
                   transcript_turns, clock, c2g, g2c, c2gData, g2cMsg, clientGone,
                   upstreamGone, postVars, storeLog>>

\* seeded fault: a ping that cannot be sent ends the session
KaPing_Fatal(s) ==
    /\ pc[s] = "relay" /\ ka[s] = "ping"
    /\ IF clientGone[s]
       THEN /\ ka' = [ka EXCEPT ![s] = "done"]
            /\ session_active' = [session_active EXCEPT ![s] = FALSE]
            /\ UNCHANGED toClient
       ELSE /\ SendClient(s, Frame("ping", None, None))
            /\ ka' = [ka EXCEPT ![s] = IF session_active[s] THEN "sleep" ELSE "done"]
            /\ UNCHANGED session_active
    /\ UNCHANGED <<storeVars, envVars, pc, gateVars, wsClosed, gemini_ws, toGemini,
                   transcript_turns, clock, c2g, g2c, c2gData, g2cMsg,
                   clientGone, upstreamGone, budget, postVars, storeLog>>

\* await websocket.send_json({"type": "ping"}) completes; except Exception: break
KaPing(s) ==
    /\ pc[s] = "relay" /\ ka[s] = "ping"
    /\ IF clientGone[s]
       THEN /\ ka' = [ka EXCEPT ![s] = "done"]
            /\ UNCHANGED toClient
       ELSE /\ SendClient(s, Frame("ping", None, None))
            /\ ka' = [ka EXCEPT ![s] = IF session_active[s] THEN "sleep" ELSE "done"]
    /\ UNCHANGED <<storeVars, envVars, pc, gateVars, wsClosed, gemini_ws, toGemini,
                   session_active, transcript_turns, clock, c2g, g2c, c2gData, g2cMsg,
                   clientGone, upstreamGone, budget, postVars, storeLog>>

\* ------------------------------------------ after the relay: bookkeeping
\* text.strip() is not empty
NonBlank(text) == \E i \in 1..Len(text) : text[i] # " "

\* seeded fault: every fragment opens a turn of its own
Consolidate_NoMerge(turns) == turns

\* seeded fault: a fragment is joined to the fragment before it only, so a
\* run of three leaves two turns of one role
RECURSIVE Consolidate_Pairs(_)
Consolidate_Pairs(turns) ==
    IF Len(turns) < 2 THEN turns
    ELSE IF turns[1][1] = turns[2][1]
         THEN <<<<turns[1][1], turns[1][2] \o turns[2][2]>>>>
                  \o Consolidate_Pairs(SubSeq(turns, 3, Len(turns)))
         ELSE <<turns[1]>> \o Consolidate_Pairs(Tail(turns))

\* for role, text in transcript_turns: a fragment of the role of the last
\* turn is joined to it, any other fragment opens a new turn
RECURSIVE Consolidate(_)
Consolidate(turns) ==
    IF turns = <<>> THEN <<>>
    ELSE LET n == Len(turns)
             acc == Consolidate(SubSeq(turns, 1, n - 1))
             k == Len(acc)
         IN  IF k > 0 /\ acc[k][1] = turns[n][1]
             THEN [acc EXCEPT ![k] = <<turns[n][1], acc[k][2] \o turns[n][2]>>]
             ELSE Append(acc, turns[n])

\* seeded fault: every turn is stored, blank or not
Storable_All(turn) == TRUE

\* if text.strip(): the turn is stored
Storable(turn) == NonBlank(turn[2])

\* the first turn at or after position i that is stored, or 0
NextSave(cons, i) ==
    IF \E j \in i..Len(cons) : Storable(cons[j])
    THEN CHOOSE j \in i..Len(cons) :
             Storable(cons[j]) /\ \A k \in i..(j - 1) : ~Storable(cons[k])
    ELSE 0

\* the await the bookkeeping block reaches after the turns before i are saved
AfterSave(cons, i) ==
    IF NextSave(cons, i) # 0 THEN "save"
    ELSE IF cons # <<>> THEN "title_gen"
    ELSE "usage_get"

\* asyncio.gather returns or raises; duration_min and consolidated are
\* computed, and the block runs to its first await
Finish(s, now) ==
    LET cons == Consolidate(transcript_turns[s]) IN
    /\ clock' = [clock EXCEPT ![s] = now]
    /\ duration_min' = [duration_min EXCEPT ![s] = now]
    /\ consolidated' = [consolidated EXCEPT ![s] = cons]
    /\ saveIdx' = [saveIdx EXCEPT ![s] = NextSave(cons, 1)]
    /\ pc' = [pc EXCEPT ![s] = AfterSave(cons, 1)]
    /\ c2g' = [c2g EXCEPT ![s] = "done"]
    /\ g2c' = [g2c EXCEPT ![s] = "done"]
    /\ ka' = [ka EXCEPT ![s] = "done"]
    /\ c2gData' = [c2gData EXCEPT ![s] = IF @ \in {EndSession, Malformed} THEN @ ELSE 0]
    /\ g2cMsg' = [g2cMsg EXCEPT ![s] = NoMsg]

\* seeded fault: gather returns as soon as one task has returned
TasksDone_Any(s) == c2g[s] = "done" \/ g2c[s] = "done" \/ ka[s] = "done"

TasksDone(s) == c2g[s] = "done" /\ g2c[s] = "done" /\ ka[s] = "done"

\* the three tasks have returned
GatherDone(s, now) ==
    /\ pc[s] = "relay" /\ TasksDone(s)
    /\ Finish(s, now)
    /\ UNCHANGED <<storeVars, envVars, gateVars, sockVars, session_active,
                   transcript_turns, clientGone, upstreamGone, budget, title,
                   snapshot, current_month, storeLog>>

\* the handler's task is cancelled while it waits in gather: gather cancels
\* the three tasks and raises CancelledError once they have ended;
\* except BaseException catches it
Cancel(s, now) ==
    /\ pc[s] = "relay" /\ ~TasksDone(s)
    /\ Spend(s)
    /\ Finish(s, now)
    /\ UNCHANGED <<storeVars, envVars, gateVars, sockVars, session_active,
                   transcript_turns, clientGone, upstreamGone, title, snapshot,
                   current_month, storeLog>>

\* await firestore.add_message(conversation_id, role, text); an exception
\* leaves the try block (except BaseException: logged)
add_message(s, ok) ==
    /\ pc[s] = "save"
    /\ IF ok
       THEN /\ messages' = [messages EXCEPT ![conversation_id[s]] =
                               Append(@, consolidated[s][saveIdx[s]])]
            /\ Log(s, "add_message")
            /\ saveIdx' = [saveIdx EXCEPT ![s] = NextSave(consolidated[s], @ + 1)]
            /\ pc' = [pc EXCEPT ![s] = AfterSave(consolidated[s], saveIdx[s] + 1)]
       ELSE /\ pc' = [pc EXCEPT ![s] = "end"]
            /\ UNCHANGED <<messages, saveIdx, storeLog>>
    /\ UNCHANGED <<freeVoiceTrialUsed, voice_usage, conversations, titles, envVars,
                   gateVars, sockVars, relayVars, budget, duration_min, consolidated,
                   title, snapshot, current_month>>

\* the title generate_voice_session_title returns when generate_content
\* raises, or when no line of the transcript fits
DefaultTitle == "New conversation"

\* title = await generate_voice_session_title(consolidated): the function
\* catches every Exception of the generation itself and returns the default
\* title then
generate_voice_session_title(s, ok) ==
    /\ pc[s] = "title_gen"
    /\ title' = [title EXCEPT ![s] = IF ok THEN "generated" ELSE DefaultTitle]
    /\ pc' = [pc EXCEPT ![s] = "title_put"]
    /\ UNCHANGED <<storeVars, envVars, gateVars, sockVars, relayVars, budget,
                   duration_min, consolidated, saveIdx, snapshot, current_month,
                   storeLog>>

\* seeded fault: a title that cannot be stored ends the bookkeeping
update_conversation_title_Fatal(s, ok) ==
    /\ pc[s] = "title_put"
    /\ IF ok
       THEN /\ titles' = [titles EXCEPT ![conversation_id[s]] = TRUE]
            /\ Log(s, "update_conversation_title")
            /\ pc' = [pc EXCEPT ![s] = "usage_get"]
       ELSE /\ pc' = [pc EXCEPT ![s] = "end"]
            /\ UNCHANGED <<titles, storeLog>>
    /\ UNCHANGED <<freeVoiceTrialUsed, voice_usage, conversations, messages, envVars,
                   gateVars, sockVars, relayVars, budget, postVars>>

\* await firestore.update_conversation_title(conversation_id, title); except Exception
update_conversation_title(s, ok) ==
    /\ pc[s] = "title_put"
    /\ IF ok
       THEN /\ titles' = [titles EXCEPT ![conversation_id[s]] = TRUE]
            /\ Log(s, "update_conversation_title")
       ELSE UNCHANGED <<titles, storeLog>>
    /\ pc' = [pc EXCEPT ![s] = "usage_get"]
    /\ UNCHANGED <<freeVoiceTrialUsed, voice_usage, conversations, messages, envVars,
                   gateVars, sockVars, relayVars, budget, postVars>>

\* update_voice_usage: snapshot = doc.get(); current_month = self._current_month_key()
usage_get(s, mo) ==
    /\ pc[s] = "usage_get"
    /\ ReadMonth(s, mo)
    /\ snapshot' = [snapshot EXCEPT ![s] = voice_usage[user[s]]]
    /\ current_month' = [current_month EXCEPT ![s] = mo]
    /\ Log(s, "update_voice_usage")
    /\ pc' = [pc EXCEPT ![s] = "usage_put"]
    /\ UNCHANGED <<storeVars, gateVars, sockVars, relayVars, duration_min,
                   consolidated, saveIdx, title>>

\* seeded fault: a record of another month is added to, not replaced
UsageWrite_NoReset(stored, snap, cur, d, sid) ==
    IF snap.exists
    THEN UsageDoc(cur, snap.monthlyMinutes + d, Append(snap.sessions, Entry(sid, d)))
    ELSE UsageDoc(cur, d, <<Entry(sid, d)>>)

\* seeded fault: the write adds to the record as stored at the time of the
\* write, not to the snapshot
UsageWrite_Atomic(stored, snap, cur, d, sid) ==
    IF stored.exists /\ stored.month = cur
    THEN [stored EXCEPT !.monthlyMinutes = @ + d, !.sessions = Append(@, Entry(sid, d))]
    ELSE UsageDoc(cur, d, <<Entry(sid, d)>>)

\* seeded fault: the total is added to the record as stored (an increment),
\* the session list is written from the snapshot
UsageWrite_SplitFields(stored, snap, cur, d, sid) ==
    IF snap.exists /\ snap.month = cur
    THEN [stored EXCEPT !.monthlyMinutes = @ + d,
                        !.sessions = Append(snap.sessions, Entry(sid, d))]
    ELSE UsageDoc(cur, d, <<Entry(sid, d)>>)

\* the record update_voice_usage leaves: doc.update changes monthlyMinutes
\* and sessions of the stored record, computed from the snapshot; doc.set
\* replaces the record
UsageWrite(stored, snap, cur, d, sid) ==
    IF snap.exists /\ snap.month = cur
    THEN [stored EXCEPT !.monthlyMinutes = snap.monthlyMinutes + d,
                        !.sessions = Append(snap.sessions, Entry(sid, d))]
    ELSE UsageDoc(cur, d, <<Entry(sid, d)>>)

\* update_voice_usage: doc.set(...) or doc.update(...)
usage_put(s) ==
    /\ pc[s] = "usage_put"
    /\ voice_usage' = [voice_usage EXCEPT ![user[s]] =
           UsageWrite(@, snapshot[s], current_month[s], duration_min[s],
                      conversation_id[s])]
    /\ pc' = [pc EXCEPT ![s] = "end"]
    /\ UNCHANGED <<freeVoiceTrialUsed, conversations, titles, messages, envVars,
                   gateVars, sockVars, relayVars, budget, postVars, storeLog>>

\* send session_ended (a failure is swallowed), then await gemini_ws.close()
SessionEnded(s) ==
    /\ pc[s] = "end"
    /\ toClient' = [toClient EXCEPT ![s] =
           IF clientGone[s] THEN @ ELSE Append(@, Frame("session_ended", None, duration_min[s]))]
    /\ gemini_ws' = [gemini_ws EXCEPT ![s] = "closed"]
    /\ pc' = [pc EXCEPT ![s] = "done"]
    /\ UNCHANGED <<storeVars, envVars, gateVars, wsClosed, toGemini, relayVars, budget,
                   postVars, storeLog>>

\* ------------------------------------------------------------- Next
Handler(s) ==
    \/ AuthFail(s)
    \/ \E u \in Users : AuthOk(s, u)
    \/ is_voice_trial_used(s)
    \/ mark_voice_trial_used(s)
    \/ \E mo \in MonthNow : ProGate(s, mo)
    \/ conversation_exists(s)
    \/ get_conversation_owner(s)
    \/ create_conversation(s)
    \/ ConnectFail(s)
    \/ ConnectOk(s)
    \/ SetupSend(s)
    \/ SetupSendFail(s)
    \/ SetupTimeout(s)
    \/ \E closed \in BOOLEAN : SetupRecvFail(s, closed)
    \/ \E reply \in SetupReplies : SetupReply(s, reply)
    \/ ClientDisconnect(s)
    \/ UpstreamClose(s)
    \/ \E d \in ClientMsgs : C2GRecv(s, d)
    \/ \E raised \in BOOLEAN : C2GDisconnected(s, raised)
    \/ C2GSend(s)
    \/ \E m \in UpstreamMsgs, now \in Now(s) : G2CRecv(s, m, now)
    \/ \E raised \in BOOLEAN : G2CClosed(s, raised)
    \/ \E now \in Now(s) : G2CSend(s, now)
    \/ KaWake(s)
    \/ KaPing(s)
    \/ \E now \in Now(s) : GatherDone(s, now)
    \/ \E now \in Now(s) : Cancel(s, now)
    \/ \E ok \in BOOLEAN : add_message(s, ok)
    \/ \E ok \in BOOLEAN : generate_voice_session_title(s, ok)
    \/ \E ok \in BOOLEAN : update_conversation_title(s, ok)
    \/ \E mo \in MonthNow : usage_get(s, mo)
    \/ usage_put(s)
    \/ SessionEnded(s)

Next == \E s \in Sessions : Handler(s)

\* one connection, MaxEvents events
Spec == Init /\ [][Next]_vars

\* the handler of a connection whose relay no message and no timer reaches:
\* it is cancelled while it waits in gather
HandlerTwo(s) ==
    \/ AuthFail(s)
    \/ \E u \in Users : AuthOk(s, u)
    \/ is_voice_trial_used(s)
    \/ mark_voice_trial_used(s)
    \/ \E mo \in MonthNow : ProGate(s, mo)
    \/ conversation_exists(s)
    \/ get_conversation_owner(s)
    \/ create_conversation(s)
    \/ ConnectFail(s)
    \/ ConnectOk(s)
    \/ SetupSend(s)
    \/ SetupSendFail(s)
    \/ SetupTimeout(s)
    \/ \E closed \in BOOLEAN : SetupRecvFail(s, closed)
    \/ SetupReply(s, "setupComplete")
    \/ \E now \in Now(s) : Cancel(s, now)
    \/ \E mo \in MonthNow : usage_get(s, mo)
    \/ usage_put(s)
    \/ SessionEnded(s)

NextTwo == \E s \in Sessions : HandlerTwo(s)

\* two concurrent connections
SpecTwo == InitTwo /\ [][NextTwo]_vars

\* one pro connection on its own conversation, admitted below the ceiling
InitRelay ==
    /\ InitStore
    /\ InitSessions({1}, [s \in Sessions |-> IF s = 1 THEN MaxEventsRelay ELSE 0])
    /\ conversation_id[1] = "c1"
    /\ voice_usage["pro_u"].monthlyMinutes = 58

\* the handler of a connection that reaches the relay and is not cancelled
HandlerRelay(s) ==
    \/ AuthOk(s, "pro_u")
    \/ ProGate(s, month)
    \/ conversation_exists(s)
    \/ get_conversation_owner(s)
    \/ ConnectOk(s)
    \/ SetupSend(s)
    \/ SetupReply(s, "setupComplete")
    \/ ClientDisconnect(s)
    \/ UpstreamClose(s)
    \/ \E d \in ClientMsgs : C2GRecv(s, d)
    \/ \E raised \in BOOLEAN : C2GDisconnected(s, raised)
    \/ C2GSend(s)
    \/ \E m \in UpstreamMsgs, now \in Now(s) : G2CRecv(s, m, now)
    \/ \E raised \in BOOLEAN : G2CClosed(s, raised)
    \/ \E now \in Now(s) : G2CSend(s, now)
    \/ KaWake(s)
    \/ KaPing(s)
    \/ \E now \in Now(s) : GatherDone(s, now)
    \/ \E ok \in BOOLEAN : add_message(s, ok)
    \/ \E ok \in BOOLEAN : generate_voice_session_title(s, ok)
    \/ \E ok \in BOOLEAN : update_conversation_title(s, ok)
    \/ usage_get(s, month)
    \/ usage_put(s)
    \/ SessionEnded(s)

NextRelay == \E s \in Sessions : HandlerRelay(s)

\* one connection in the relay, MaxEventsRelay events
SpecRelay == InitRelay /\ [][NextRelay]_vars

\* the fragments gemini_to_client can have collected: `if text:` keeps every
\* text that is not empty
Roles == {"user", "assistant"}
Texts == {<<"a">>, <<" ">>, <<" ", "b">>}
Fragments == {<<r, x>> : r \in Roles, x \in Texts}
FragmentSeqs == UNION {[1..n -> Fragments] : n \in 0..MaxFrags}

\* the transcript frames sent for a fragment sequence
TranscriptFrames(turns) ==
    [i \in 1..Len(turns) |-> Frame("transcript", turns[i][1], turns[i][2])]

\* a pro connection whose relay has collected some fragment sequence and was
\* ended by end_session: the three tasks have returned, gather is about to
At(x, rest) == [s \in Sessions |-> IF s = 1 THEN x ELSE rest]

InitCons ==
    /\ InitStore
    /\ voice_usage["pro_u"].monthlyMinutes = 58
    /\ pc = At("relay", "idle")
    /\ budget = At(0, 0)
    /\ user = At("pro_u", None)
    /\ conversation_id = At("c1", "c1")
    /\ trial_used = At(FALSE, FALSE)
    /\ usage = At(58, 0)
    /\ session_max_minutes = At(VOICE_SESSION_MAX_MINUTES, 0)
    /\ setup_data = At("setupComplete", None)
    /\ \E turns \in FragmentSeqs :
          /\ transcript_turns = At(turns, <<>>)
          /\ toClient = At(TranscriptFrames(turns), <<>>)
    /\ wsClosed = At(FALSE, FALSE)
    /\ gemini_ws = At("open", "none")
    /\ toGemini = At(<<SetupFrame>>, <<>>)
    /\ session_active = At(FALSE, FALSE)
    /\ clock = At(0, 0)
    /\ c2g = At("done", "idle")
    /\ g2c = At("done", "idle")
    /\ ka = At("done", "idle")
    /\ c2gData = At(EndSession, 0)
    /\ g2cMsg = At(NoMsg, NoMsg)
    /\ clientGone = At(FALSE, FALSE)
    /\ upstreamGone = At(FALSE, FALSE)
    /\ duration_min = At(0, 0)
    /\ consolidated = At(<<>>, <<>>)
    /\ saveIdx = At(0, 0)
    /\ title = At(None, None)
    /\ snapshot = At(NoUsage, NoUsage)
    /\ current_month = At(0, 0)
    /\ storeLog = At(<<>>, <<>>)

\* the handler from the return of gather on
HandlerCons(s) ==
    \/ GatherDone(s, clock[s])
    \/ \E ok \in BOOLEAN : add_message(s, ok)
    \/ \E ok \in BOOLEAN : generate_voice_session_title(s, ok)
    \/ \E ok \in BOOLEAN : update_conversation_title(s, ok)
    \/ usage_get(s, month)
    \/ usage_put(s)
    \/ SessionEnded(s)

NextCons == \E s \in Sessions : HandlerCons(s)

\* the bookkeeping of one session, for every fragment sequence of up to
\* MaxFrags fragments
SpecCons == InitCons /\ [][NextCons]_vars
\* ------------------------------------------------ two users, one store
\* the fragment the upstream transcribes in the sessions of SpecOwn
OwnMsg == Msg(0, <<"a">>, Absent, FALSE)

\* the pro user connects on connection 1, the free user on connection 2
UserOf(s) == IF s = 1 THEN "pro_u" ELSE "free_u"

\* both connections accepted, MaxEvents events each
InitOwn ==
    /\ InitStore
    /\ InitSessions(Sessions, [s \in Sessions |-> MaxEvents])

\* the handler of a connection whose upstream works and whose store calls
\* succeed, in a month that does not change
HandlerOwn(s) ==
    \/ AuthOk(s, UserOf(s))
    \/ is_voice_trial_used(s)
    \/ mark_voice_trial_used(s)
    \/ ProGate(s, month)
    \/ conversation_exists(s)
    \/ get_conversation_owner(s)
    \/ create_conversation(s)
    \/ ConnectOk(s)
    \/ SetupSend(s)
    \/ SetupReply(s, "setupComplete")
    \/ G2CRecv(s, OwnMsg, clock[s])
    \/ G2CSend(s, clock[s])
    \/ Cancel(s, clock[s])
    \/ add_message(s, TRUE)
    \/ generate_voice_session_title(s, TRUE)
    \/ update_conversation_title(s, TRUE)
    \/ usage_get(s, month)
    \/ usage_put(s)
    \/ SessionEnded(s)

NextOwn == \E s \in Sessions : HandlerOwn(s)

\* two users' sessions that collect and store transcripts
SpecOwn == InitOwn /\ [][NextOwn]_vars

\* ------------------------------------------------------- properties
\* the states in which a handler has returned before the relay started
PreRelayFailures == {"auth_failed", "denied", "forbidden", "connect_failed", "setup_timeout"}

\* the client was sent one frame, an error frame
OneError(s) == Len(toClient[s]) = 1 /\ toClient[s][1].type = "error"

\* how often handler s called store operation op
Calls(s, op) == Cardinality({i \in DOMAIN storeLog[s] : storeLog[s][i] = op})

\* the access check of step 2 let the attempt through
GatePassed(s) ==
    /\ user[s] # None
    /\ pc[s] \notin {"idle", "auth", "auth_failed", "trial_read", "usage_read", "denied"}

\* C1: of the voice session attempts of one free-plan user, overlapping or
\* not, at most one passes the access check
C1_OneTrialPerUser ==
    \A s, t \in Sessions :
        (s # t /\ user[s] = user[t] /\ user[s] # None /\ PlanOf(user[s]) = "free")
            => ~(GatePassed(s) /\ GatePassed(t))

\* C2: a handler that ran the relay and has returned called
\* update_voice_usage exactly once
C2_UsageUpdatedOnce ==
    \A s \in Sessions : pc[s] = "done" => Calls(s, "update_voice_usage") = 1

\* a step a relay task takes on its own: a send completing, a timer firing,
\* a closed connection being noticed, gather returning
TaskStep(s) ==
    \/ C2GSend(s)
    \/ \E raised \in BOOLEAN : C2GDisconnected(s, raised)
    \/ \E now \in Now(s) : G2CSend(s, now)
    \/ \E raised \in BOOLEAN : G2CClosed(s, raised)
    \/ KaWake(s)
    \/ KaPing(s)
    \/ \E now \in Now(s) : GatherDone(s, now)

\* C3: once session_active is false the relay can always move on by a step
\* of its own tasks, until gather has returned: it never waits for a further
\* message, a disconnect or a cancellation
C3_TasksExitUnaided ==
    \A s \in Sessions : (pc[s] = "relay" /\ ~session_active[s]) => ENABLED TaskStep(s)

MinutesIn(doc, mo) == IF doc.exists /\ doc.month = mo THEN doc.monthlyMinutes ELSE 0

\* the access check of a pro attempt: allowed exactly below 60 minutes, then
\* with a 30 minute maximum
ProGateStep(s) ==
    (pc[s] = "usage_read" /\ pc'[s] # "usage_read") =>
        /\ pc'[s] \in {"conv_exists", "denied"}
        /\ pc'[s] = "conv_exists" <=> MinutesIn(voice_usage[user[s]], month') < 60
        /\ pc'[s] = "conv_exists" => session_max_minutes'[s] = 30

\* a pro session keeps its 30 minute maximum and the time limit ends it only
\* at 30 minutes or later, whatever the monthly total has become
ProSessionKept(s) ==
    (PlanOf(user[s]) = "pro" /\ GatePassed(s)) =>
        /\ session_max_minutes[s] = 30
        /\ g2c[s] = "send_limit" => clock[s] >= 30

\* C5: a pro attempt passes the access check if and only if the minutes of
\* the current month are below 60 when it is made; an allowed session has a
\* maximum of 30 minutes whatever is left of the month, and is not ended by
\* the time limit before 30 minutes
C5_ProGate ==
    /\ [](\A s \in Sessions : ProSessionKept(s))
    /\ [][\A s \in Sessions : ProGateStep(s)]_vars

\* a pro session allowed at 58 minutes is active at its 29th minute
C5_Witness ==
    \E s \in Sessions :
        /\ pc[s] = "relay" /\ PlanOf(user[s]) = "pro"
        /\ usage[s] = 58 /\ clock[s] = 29
        /\ session_active[s] /\ g2c[s] = "recv"

\* an upstream connection is being opened or has been attempted for s
UpstreamAttempted(s) ==
    pc[s] \in {"connect", "connect_failed", "setup_send", "setup_recv", "setup_timeout",
               "crashed"} \/ gemini_ws[s] # "none"

\* C6: a free attempt reaches the upstream connect only with the trial flag
\* set, and a set trial flag is never cleared
C6_TrialDebitedFirst ==
    /\ [](\A s \in Sessions :
             (user[s] # None /\ PlanOf(user[s]) = "free" /\ GatePassed(s)
                  /\ pc[s] # "trial_mark")
                 => freeVoiceTrialUsed[user[s]])
    /\ [](\A s \in Sessions :
             (user[s] # None /\ PlanOf(user[s]) = "free" /\ UpstreamAttempted(s))
                 => freeVoiceTrialUsed[user[s]])
    /\ [][\A u \in Users : freeVoiceTrialUsed[u] => freeVoiceTrialUsed'[u]]_vars

\* the upstream connect of a free attempt failed after the trial was taken
C6_Witness ==
    \E s \in Sessions :
        /\ pc[s] = "connect_failed" /\ PlanOf(user[s]) = "free"
        /\ freeVoiceTrialUsed[user[s]]

\* C7: a denied attempt got one error frame and a closed connection, never
\* touched the upstream and wrote nothing to the store, and the step that
\* denies it leaves the store as it is
C7_DenialLeavesNoTrace ==
    /\ [](\A s \in Sessions :
             pc[s] = "denied" =>
                 /\ OneError(s) /\ wsClosed[s]
                 /\ gemini_ws[s] = "none" /\ toGemini[s] = <<>>
                 /\ storeLog[s] = <<>>)
    /\ [][\A s \in Sessions :
             (pc'[s] = "denied" /\ pc[s] # "denied") => UNCHANGED storeVars]_vars
    /\ [][\A s \in Sessions :
             pc[s] = "denied" => UNCHANGED <<pc[s], toClient[s], gemini_ws[s], storeLog[s]>>]_vars

\* a free attempt is denied because the trial was taken by an earlier one
C7_Witness ==
    \E s \in Sessions :
        /\ pc[s] = "denied" /\ PlanOf(user[s]) = "free"
        /\ freeVoiceTrialUsed[user[s]]

\* C8: a handler that failed before the relay sent exactly one frame, an
\* error frame, closed the connection, never set session_active, never
\* started a task and never called update_voice_usage, and stays so; a
\* failed authentication happens before any store call
C8_PreRelayFailure ==
    /\ [](\A s \in Sessions :
             pc[s] \in PreRelayFailures =>
                 /\ OneError(s) /\ wsClosed[s]
                 /\ ~session_active[s]
                 /\ c2g[s] = "idle" /\ g2c[s] = "idle" /\ ka[s] = "idle"
                 /\ Calls(s, "update_voice_usage") = 0
                 /\ \A u \in Users : voice_usage[u] \in InitUsage
                 /\ pc[s] = "auth_failed" => storeLog[s] = <<>> /\ user[s] = None)
    /\ [][\A s \in Sessions :
             (pc'[s] = "auth_failed" /\ pc[s] # "auth_failed") => UNCHANGED storeVars]_vars
    /\ [][\A s \in Sessions :
             pc[s] \in PreRelayFailures =>
                 UNCHANGED <<pc[s], toClient[s], session_active[s], storeLog[s]>>]_vars

\* an attempt is rejected by the ownership check
C8_Witness ==
    \E s \in Sessions : pc[s] = "forbidden" /\ OneError(s) /\ wsClosed[s]

\* C9: after a handshake timeout the client has exactly one error frame,
\* both connections are closed, no relay task was started, and the handler
\* stored no message and no usage
C9_HandshakeTimeout ==
    \A s \in Sessions :
        pc[s] = "setup_timeout" =>
            /\ OneError(s) /\ wsClosed[s]
            /\ gemini_ws[s] = "closed"
            /\ toGemini[s] = <<SetupFrame>>
            /\ c2g[s] = "idle" /\ g2c[s] = "idle" /\ ka[s] = "idle"
            /\ Calls(s, "add_message") = 0
            /\ messages[conversation_id[s]] = <<>>
            /\ Calls(s, "update_voice_usage") = 0
            /\ \A u \in Users : voice_usage[u] \in InitUsage

\* the handshake of a session timed out after the setup frame was sent
C9_Witness ==
    \E s \in Sessions : pc[s] = "setup_timeout" /\ toGemini[s] = <<SetupFrame>>

\* C10: after any failure of the upstream during connect or handshake the
\* client has an error frame and its connection is closed
C10_UpstreamFailureNotified ==
    \A s \in Sessions :
        pc[s] \in {"connect_failed", "setup_timeout", "crashed"} =>
            OneError(s) /\ wsClosed[s]

\* the handler has left the relay and is in, or past, its bookkeeping
AfterRelay(s) == pc[s] \in {"save", "title_gen", "title_put", "usage_get", "usage_put", "end", "done"}

\* the messages the bookkeeping stores for a fragment sequence
Stored(turns) == SelectSeq(Consolidate(turns), Storable)

\* C11: from an end_session message on, session_active stays false, the
\* client pump has stopped and nothing more is sent upstream; the upstream
\* pump, once it waits for a message with the flag false, leaves its loop at
\* the next one without forwarding or recording anything; and a handler
\* whose writes all succeeded has stored every accumulated fragment, in its
\* consolidated turn, and recorded the usage once
C11_EndSession ==
    /\ [](\A s \in Sessions :
             c2gData[s] = EndSession => ~session_active[s] /\ c2g[s] = "done")
    /\ [][\A s \in Sessions :
             c2gData[s] = EndSession => toGemini'[s] = toGemini[s]]_vars
    /\ [][\A s \in Sessions :
             (pc[s] = "relay" /\ ~session_active[s] /\ g2c[s] = "recv"
                  /\ g2c'[s] # "recv")
                 => /\ g2c'[s] = "done"
                    /\ toClient'[s] = toClient[s]
                    /\ transcript_turns'[s] = transcript_turns[s]]_vars
    /\ [](\A s \in Sessions :
             (pc[s] = "done" /\ c2gData[s] = EndSession /\ saveIdx[s] = 0)
                 => /\ messages[conversation_id[s]] = Stored(transcript_turns[s])
                    /\ Calls(s, "update_voice_usage") = 1)

\* a session ended by end_session has returned with its fragments stored
C11_Witness ==
    \E s \in Sessions :
        /\ pc[s] = "done" /\ c2gData[s] = EndSession
        /\ transcript_turns[s] # <<>>
        /\ messages[conversation_id[s]] = Stored(transcript_turns[s])
        /\ Len(messages[conversation_id[s]]) > 0

\* ------------------------------------------------ transcript consolidation
\* the positions of the fragments that open a turn: the first one, and every
\* fragment whose role differs from the role of the fragment before it
FirstFragments(turns) ==
    {i \in 1..Len(turns) : i = 1 \/ turns[i][1] # turns[i - 1][1]}

\* the k-th such position in arrival order
FirstFragment(turns, k) ==
    CHOOSE i \in FirstFragments(turns) :
        Cardinality({j \in FirstFragments(turns) : j <= i}) = k

\* text begins with prefix
StartsWith(text, prefix) ==
    Len(prefix) <= Len(text) /\ SubSeq(text, 1, Len(prefix)) = prefix

\* C12: whatever fragments the relay collected, the consolidated list has no
\* two neighbouring turns of one role, and its k-th turn is the turn opened
\* by the k-th first fragment: it has that fragment's role and begins with
\* that fragment's text
C12_NoAdjacentSameRole ==
    \A s \in Sessions : AfterRelay(s) =>
        LET turns == transcript_turns[s]
            cons == consolidated[s]
        IN  /\ \A k \in 1..(Len(cons) - 1) : cons[k][1] # cons[k + 1][1]
            /\ Len(cons) = Cardinality(FirstFragments(turns))
            /\ \A k \in 1..Len(cons) :
                   /\ cons[k][1] = turns[FirstFragment(turns, k)][1]
                   /\ StartsWith(cons[k][2], turns[FirstFragment(turns, k)][2])

\* a run of three fragments of one role, then another role, consolidated
C12_Witness ==
    /\ AfterRelay(1)
    /\ Len(transcript_turns[1]) = 4
    /\ transcript_turns[1][1][1] = transcript_turns[1][2][1]
    /\ transcript_turns[1][2][1] = transcript_turns[1][3][1]
    /\ transcript_turns[1][3][1] # transcript_turns[1][4][1]
    /\ Len(consolidated[1]) = 2

\* the reference of the specification: the runs of neighbouring fragments of
\* one role, each joined into one turn
RECURSIVE MergeRuns(_)
MergeRuns(turns) ==
    IF turns = <<>> THEN <<>>
    ELSE LET rest == MergeRuns(Tail(turns)) IN
         IF rest # <<>> /\ rest[1][1] = Head(turns)[1]
         THEN <<<<Head(turns)[1], Head(turns)[2] \o rest[1][2]>>>> \o Tail(rest)
         ELSE <<Head(turns)>> \o rest

\* drop the fragments whose text is empty or blank, then join the runs
Reference(turns) == MergeRuns(SelectSeq(turns, Storable))

\* C13: the turns the bookkeeping keeps for storing are the reference
\* function of the fragment sequence: blank fragments dropped first, then
\* every run of one role joined in arrival order
C13_ConsolidationIsReference ==
    \A s \in Sessions : AfterRelay(s) =>
        SelectSeq(consolidated[s], Storable) = Reference(transcript_turns[s])

\* C14: the consolidated list is a function of the fragment sequence alone,
\* and consolidating it again returns it unchanged
C14_Idempotent ==
    /\ [](\A s \in Sessions : AfterRelay(s) =>
             /\ consolidated[s] = Consolidate(transcript_turns[s])
             /\ Consolidate(consolidated[s]) = consolidated[s])
    /\ [][\A s \in Sessions :
             (pc[s] = "relay" /\ pc'[s] # "relay") =>
                 Consolidate(consolidated'[s]) = Consolidate(transcript_turns[s])]_vars

\* a run of three fragments of one role was consolidated into one turn
C14_Witness ==
    /\ AfterRelay(1)
    /\ Len(transcript_turns[1]) = 3
    /\ Len(consolidated[1]) = 1
    /\ Consolidate(consolidated[1]) = consolidated[1]

\* ------------------------------------------------------- usage accounting
\* C15: whatever the order of the accounting steps of a user's sessions, a
\* step that leaves the stored record in the same month does not lower its
\* total
C15_TotalNeverDecreases ==
    [][\A u \in Users :
          (voice_usage[u].exists /\ voice_usage'[u].exists
              /\ voice_usage'[u].month = voice_usage[u].month)
          => voice_usage'[u].monthlyMinutes >= voice_usage[u].monthlyMinutes]_vars

\* C16: the step that records a session's usage replaces a missing record
\* or a record of another month by {current month, this duration, this one
\* entry}; on a record of the current month it adds the duration to the
\* total and appends the entry after the entries already there
C16_ResetOrAdd ==
    [][\A s \in Sessions :
          (pc[s] = "usage_put" /\ pc'[s] = "end") =>
              LET old == voice_usage[user[s]]
                  new == voice_usage'[user[s]]
                  entry == Entry(conversation_id[s], duration_min[s])
              IN  IF ~old.exists \/ old.month # current_month[s]
                  THEN new = UsageDoc(current_month[s], duration_min[s], <<entry>>)
                  ELSE /\ new.exists /\ new.month = old.month
                       /\ new.monthlyMinutes = old.monthlyMinutes + duration_min[s]
                       /\ new.sessions = Append(old.sessions, entry)]_vars

\* a session that began in one month was recorded in the next: the record
\* of the old month has been replaced
C16_Witness ==
    /\ pc[1] \in {"end", "done"}
    /\ snapshot[1].exists /\ snapshot[1].month = FirstMonth
    /\ snapshot[1].monthlyMinutes = 58
    /\ current_month[1] = FirstMonth + 1
    /\ duration_min[1] = 25
    /\ voice_usage["pro_u"] = UsageDoc(FirstMonth + 1, 25, <<Entry(conversation_id[1], 25)>>)

\* ---------------------------------------------------------------- order
\* the time warnings, sent as transcript frames but not collected
WarningTexts ==
    {<<"[1 minute remaining in your free session]">>, <<"[5 minutes remaining in session]">>}

IsAudio(f) == f.type = "audio"
IsFragment(f) == f.type = "transcript" /\ f.data \notin WarningTexts

\* an audio frame sent upstream carries the receipt number of its message,
\* a number that falls with every event
InClientOrder(frames) ==
    \A i \in 1..(Len(frames) - 1) : frames[i + 1].data < frames[i].data

\* an audio frame sent to the client carries the receipt number of its
\* message and the number of parts of the message still to send
InUpstreamOrder(frames) ==
    \A i \in 1..(Len(frames) - 1) :
        LET p == frames[i].data
            q == frames[i + 1].data
        IN  q[1] < p[1] \/ (q[1] = p[1] /\ q[2] < p[2])

\* C17: within a session the audio frames sent upstream are in the order
\* the client sent them and the audio parts sent to the client in the order
\* the upstream sent them, none twice; the transcript frames sent to the
\* client are the collected fragments in order, all but at most the newest;
\* a fragment is only ever appended, it is a transcription of the message
\* being processed, tagged user for input and assistant for output; and
\* frames are only ever appended to either connection
C17_OrderKept ==
    /\ [](\A s \in Sessions :
             /\ InClientOrder(SelectSeq(toGemini[s], IsAudio))
             /\ InUpstreamOrder(SelectSeq(toClient[s], IsAudio))
             /\ LET sent == SelectSeq(toClient[s], IsFragment)
                     turns == transcript_turns[s]
                IN  /\ Len(sent) \in {Len(turns) - 1, Len(turns)}
                    /\ \A i \in 1..Len(sent) :
                           sent[i].role = turns[i][1] /\ sent[i].data = turns[i][2])
    /\ [][\A s \in Sessions :
             /\ \/ transcript_turns'[s] = transcript_turns[s]
                \/ /\ g2c'[s] = "send_in"
                   /\ transcript_turns'[s] =
                          Append(transcript_turns[s], <<"user", g2cMsg'[s].input>>)
                \/ /\ g2c'[s] = "send_out"
                   /\ transcript_turns'[s] =
                          Append(transcript_turns[s], <<"assistant", g2cMsg'[s].output>>)
             /\ \/ toClient'[s] = toClient[s]
                \/ \E f \in {toClient'[s][Len(toClient'[s])]} :
                      toClient'[s] = Append(toClient[s], f)
             /\ \/ toGemini'[s] = toGemini[s]
                \/ \E f \in {toGemini'[s][Len(toGemini'[s])]} :
                      toGemini'[s] = Append(toGemini[s], f)]_vars

\* a client audio frame went upstream, and one upstream message brought two
\* audio parts and both transcriptions: all were forwarded
C17_Witness ==
    /\ Len(SelectSeq(toGemini[1], IsAudio)) = 1
    /\ Len(SelectSeq(toClient[1], IsAudio)) = 2
    /\ Len(SelectSeq(toClient[1], IsFragment)) = 2
    /\ transcript_turns[1] = <<<<"user", <<"a">>>>, <<"assistant", <<"b">>>>>>

\* ----------------------------------------------------------- keep-alive
\* the ticker has ended on a ping it could not send: it ends in no other way
\* while session_active is true
TickerFailed(s) == pc[s] = "relay" /\ ka[s] = "done" /\ session_active[s]

\* C18: the step in which a ping cannot be sent ends the ticker and changes
\* nothing else: session_active, both pumps and the handler are where they
\* were; and with the ticker ended so, the upstream pump still takes the
\* next upstream message and the client pump still completes its send
C18_PingFailureStopsTickerOnly ==
    /\ [][\A s \in Sessions :
             (ka[s] = "ping" /\ ka'[s] = "done" /\ clientGone[s]) =>
                 /\ session_active'[s] = session_active[s]
                 /\ c2g'[s] = c2g[s] /\ g2c'[s] = g2c[s] /\ pc'[s] = pc[s]
                 /\ toClient'[s] = toClient[s] /\ toGemini'[s] = toGemini[s]
                 /\ gemini_ws'[s] = gemini_ws[s] /\ wsClosed'[s] = wsClosed[s]]_vars
    /\ [](\A s \in Sessions : TickerFailed(s) =>
             /\ (g2c[s] = "recv" /\ ~upstreamGone[s] /\ budget[s] > 0) =>
                    ENABLED (G2CRecv(s, Msg(0, <<"a">>, Absent, FALSE), clock[s])
                               /\ g2c'[s] = "send_in")
             /\ c2g[s] = "send_up" =>
                    ENABLED (C2GSend(s) /\ (~upstreamGone[s] => toGemini'[s] # toGemini[s])))

\* a ping could not be sent; the session is still active and the upstream
\* pump is forwarding a message
C18_Witness ==
    /\ TickerFailed(1)
    /\ clientGone[1]
    /\ g2c[1] = "send_in"
    /\ transcript_turns[1] # <<>>

\* ------------------------------------------------------ end of a session
IsSessionEnded(f) == f.type = "session_ended"

\* C19: a handler that has been through the relay has sent session_ended
\* at most once, and once, as the last frame, to a client that is still
\* there; and it has closed the upstream and the client connection
C19_EndedThenBothClosed ==
    \A s \in Sessions : pc[s] = "done" =>
        /\ Len(SelectSeq(toClient[s], IsSessionEnded)) <= 1
        /\ ~clientGone[s] =>
               /\ toClient[s] # <<>>
               /\ IsSessionEnded(toClient[s][Len(toClient[s])])
        /\ gemini_ws[s] = "closed"
        /\ wsClosed[s]

\* ------------------------------------------------------------ no retries
IsSetup(f) == f = SetupFrame

\* the handler has returned or raised
Returned ==
    {"auth_failed", "denied", "forbidden", "connect_failed", "setup_timeout",
     "crashed", "done"}

\* C20: a handler opens the upstream connection at most once (gemini_ws
\* leaves "none" only in the connect step, and never becomes open again),
\* sends at most one setup frame, starts the relay at most once, and does
\* nothing after it has returned; session_active becomes true only in the
\* step that starts the relay, so once false in or after the relay, or
\* after a failed connect or handshake, it stays false
C20_NoRetries ==
    /\ [](\A s \in Sessions : Len(SelectSeq(toGemini[s], IsSetup)) <= 1)
    /\ [][\A s \in Sessions :
             /\ gemini_ws'[s] # gemini_ws[s] =>
                    \/ gemini_ws[s] = "none" /\ pc[s] = "connect"
                    \/ gemini_ws[s] = "open" /\ gemini_ws'[s] = "closed"
             /\ (pc'[s] = "connect" /\ pc[s] # "connect") =>
                    gemini_ws[s] = "none" /\ toGemini[s] = <<>>
             /\ (pc'[s] = "relay" /\ pc[s] # "relay") =>
                    pc[s] = "setup_recv" /\ transcript_turns[s] = <<>>
             /\ (session_active'[s] /\ ~session_active[s]) =>
                    pc[s] = "setup_recv" /\ pc'[s] = "relay"
             /\ pc[s] \in Returned =>
                    /\ pc'[s] = pc[s] /\ toGemini'[s] = toGemini[s]
                    /\ gemini_ws'[s] = gemini_ws[s] /\ toClient'[s] = toClient[s]]_vars

\* the client left in mid-session: the session has ended, with one setup
\* frame sent and the flag false
C20_Witness ==
    /\ pc[1] = "done"
    /\ clientGone[1]
    /\ ~session_active[1]
    /\ Len(SelectSeq(toGemini[1], IsSetup)) = 1
    /\ gemini_ws[1] = "closed"

\* ------------------------------------------------------------ time limit
\* the notice of the time limit for the plan of the session's user
LimitFrame(s) ==
    ErrorFrame(IF PlanOf(user[s]) = "free"
               THEN "Free voice session complete (5 minutes)"
               ELSE "Session time limit reached (30 minutes)")

IsRelayed(f) == f.type \in {"audio", "transcript", "turn_complete"}

\* C21: the upstream pump is about to send the limit notice exactly when its
\* time check read an elapsed time at or past the maximum, and never a
\* warning then; the step that completes that send appends the one notice
\* worded for the plan (nothing, when the client is gone), clears
\* session_active and ends the pump (a pump cancelled from outside while it
\* sends is not such a step); the client gets at most one notice and no
\* audio, transcript or turn_complete frame after it
C21_LimitStopsRelay ==
    /\ [](\A s \in Sessions : pc[s] = "relay" =>
             /\ g2c[s] = "send_limit" => clock[s] >= session_max_minutes[s]
             /\ g2c[s] \in {"recv", "send_warn"} => clock[s] < session_max_minutes[s])
    /\ [](\A s \in Sessions :
             \A i \in 1..Len(toClient[s]) : toClient[s][i] = LimitFrame(s) =>
                 \A j \in (i + 1)..Len(toClient[s]) :
                     ~IsRelayed(toClient[s][j]) /\ toClient[s][j] # LimitFrame(s))
    /\ [][\A s \in Sessions :
             (pc[s] = "relay" /\ pc'[s] = "relay"
                 /\ g2c[s] = "send_limit" /\ g2c'[s] # "send_limit") =>
                 /\ g2c'[s] = "done"
                 /\ ~session_active'[s]
                 /\ toClient'[s] = IF clientGone[s] THEN toClient[s]
                                   ELSE Append(toClient[s], LimitFrame(s))]_vars

\* a free session was stopped at its fifth minute: the notice is the last
\* frame the client got, after a forwarded transcript
C21_Witness ==
    /\ PlanOf(user[1]) = "free"
    /\ g2c[1] = "done" /\ ~session_active[1]
    /\ Len(toClient[1]) >= 2
    /\ toClient[1][Len(toClient[1])] = LimitFrame(1)
    /\ toClient[1][Len(toClient[1]) - 1].type = "transcript"

\* ----------------------------------------------------- keep-alive pings
IsPing(f) == f.type = "ping"

\* C22: a ping frame is sent to the client only in a state in which
\* session_active is true
C22_PingOnlyWhileActive ==
    [][\A s \in Sessions :
          (Len(toClient'[s]) = Len(toClient[s]) + 1 /\ IsPing(toClient'[s][Len(toClient'[s])]))
              => session_active[s]]_vars

\* ------------------------------------------- relay tasks and bookkeeping
\* C23: the handler leaves gather only when all three tasks have returned,
\* or by a cancellation, which ends all three in the same step; the list it
\* consolidates is the fragment sequence as the tasks left it; from then on
\* no task runs and the fragment sequence does not change
C23_BookkeepingAfterTasks ==
    /\ [][\A s \in Sessions :
             (pc[s] = "relay" /\ pc'[s] # "relay") =>
                 /\ \/ c2g[s] = "done" /\ g2c[s] = "done" /\ ka[s] = "done"
                    \/ budget'[s] < budget[s]
                 /\ c2g'[s] = "done" /\ g2c'[s] = "done" /\ ka'[s] = "done"
                 /\ transcript_turns'[s] = transcript_turns[s]
                 /\ consolidated'[s] = Consolidate(transcript_turns[s])]_vars
    /\ [][\A s \in Sessions :
             AfterRelay(s) =>
                 /\ transcript_turns'[s] = transcript_turns[s]
                 /\ c2g'[s] = "done" /\ g2c'[s] = "done" /\ ka'[s] = "done"
                 /\ toGemini'[s] = toGemini[s]
                 /\ consolidated'[s] = consolidated[s]]_vars

\* a session cancelled from outside with a fragment collected: its
\* bookkeeping is storing the turn, session_active still true
C23_Witness ==
    /\ pc[1] = "save"
    /\ session_active[1]
    /\ transcript_turns[1] # <<>>
    /\ consolidated[1] = Consolidate(transcript_turns[1])
    /\ c2g[1] = "done" /\ g2c[1] = "done" /\ ka[1] = "done"

\* ------------------------------------------------ failures while storing
\* the add_message call of this step raised: nothing was stored or recorded
SaveFailed(s) == pc[s] = "save" /\ pc'[s] # pc[s] /\ storeLog'[s] = storeLog[s]

\* C24: after an add_message call that raised, the bookkeeping goes on
\* (to the next turn, the title or the usage record), and a handler that
\* has come to its end has updated the usage record
C24_SaveFailureKeepsAccounting ==
    /\ [][\A s \in Sessions :
             SaveFailed(s) => pc'[s] \in {"title_gen", "usage_get"}]_vars
    /\ [](\A s \in Sessions :
             (pc[s] = "done" /\ Len(messages[conversation_id[s]]) < Len(Stored(transcript_turns[s])))
                 => \E i \in 1..Len(storeLog[s]) : storeLog[s][i] = "update_voice_usage")

\* C25: the title is attempted only with a consolidated turn at hand; a
\* generation that fails gives the default title and a store of the title
\* that fails is passed over, each followed by the next step of the
\* bookkeeping; a handler that attempted a title and has returned updated
\* the usage record once and sent session_ended last to a client still there
C25_TitleFailureNotFatal ==
    /\ [](\A s \in Sessions :
             /\ pc[s] \in {"title_gen", "title_put"} => consolidated[s] # <<>>
             /\ (AfterRelay(s) /\ consolidated[s] = <<>>) => title[s] = None
             /\ (pc[s] = "done" /\ title[s] # None) =>
                    /\ Calls(s, "update_voice_usage") = 1
                    /\ ~clientGone[s] => IsSessionEnded(toClient[s][Len(toClient[s])]))
    /\ [][\A s \in Sessions :
             /\ (pc[s] = "title_gen" /\ pc'[s] # pc[s]) => pc'[s] = "title_put"
             /\ (pc[s] = "title_put" /\ pc'[s] # pc[s]) => pc'[s] = "usage_get"]_vars

\* the generation failed and the default title could not be stored: the
\* usage record was updated and session_ended sent all the same
C25_Witness ==
    /\ pc[1] = "done"
    /\ title[1] = DefaultTitle
    /\ ~titles[conversation_id[1]]
    /\ Calls(1, "update_voice_usage") = 1
    /\ toClient[1] # <<>>
    /\ IsSessionEnded(toClient[1][Len(toClient[1])])

\* ------------------------------------------------ malformed client frame
\* C26: the step in which the client pump meets a frame it cannot handle
\* sends nothing to either side and touches neither the fragments nor the
\* other two tasks; from then on session_active is false, the client pump
\* has stopped and nothing more goes upstream; the handler of such a
\* session, when its add_message calls succeed, has stored the consolidated
\* fragments, updated the usage record once and sent session_ended last to
\* a client still there
C26_MalformedFailsClosed ==
    /\ [](\A s \in Sessions : c2gData[s] = Malformed =>
             /\ ~session_active[s] /\ c2g[s] = "done"
             /\ (pc[s] = "done" /\ saveIdx[s] = 0) =>
                    /\ messages[conversation_id[s]] = Stored(transcript_turns[s])
                    /\ Calls(s, "update_voice_usage") = 1
                    /\ ~clientGone[s] => IsSessionEnded(toClient[s][Len(toClient[s])]))
    /\ [][\A s \in Sessions :
             /\ (c2gData'[s] = Malformed /\ c2gData[s] # Malformed) =>
                    /\ toGemini'[s] = toGemini[s] /\ toClient'[s] = toClient[s]
                    /\ transcript_turns'[s] = transcript_turns[s]
                    /\ g2c'[s] = g2c[s] /\ ka'[s] = ka[s] /\ pc'[s] = pc[s]
             /\ c2gData[s] = Malformed => toGemini'[s] = toGemini[s]]_vars

\* a session ended by a malformed frame after a fragment had been
\* collected: the turn is stored, the usage updated, session_ended sent
C26_Witness ==
    /\ pc[1] = "done" /\ c2gData[1] = Malformed
    /\ transcript_turns[1] # <<>>
    /\ Len(messages[conversation_id[1]]) > 0
    /\ Calls(1, "update_voice_usage") = 1
    /\ toClient[1] # <<>>
    /\ IsSessionEnded(toClient[1][Len(toClient[1])])

\* ------------------------------------------------- concurrent accounting
\* the sessions a snapshot shows for month cur
SessionsIn(doc, cur) == IF doc.exists /\ doc.month = cur THEN doc.sessions ELSE <<>>

\* both sessions belong to one user, read the same record in the same month
\* and have written
BothWrote(s, t) ==
    /\ s # t /\ user[s] = user[t]
    /\ pc[s] \in {"end", "done"} /\ pc[t] \in {"end", "done"}
    /\ Calls(s, "update_voice_usage") = 1 /\ Calls(t, "update_voice_usage") = 1
    /\ snapshot[s] = snapshot[t] /\ current_month[s] = current_month[t]

\* C27: when two sessions of a user have both read the same stored record
\* and both written, the record is what one of them wrote from that
\* snapshot: the total holds one of the two durations, the list one new
\* entry; the other session's duration is missing
C27_LostUpdate ==
    \A s, t \in Sessions : BothWrote(s, t) =>
        LET doc == voice_usage[user[s]]
            base == MinutesIn(snapshot[s], current_month[s])
            old == SessionsIn(snapshot[s], current_month[s])
        IN  /\ doc.monthlyMinutes \in {base + duration_min[s], base + duration_min[t]}
            /\ doc.sessions \in
                   { Append(old, Entry(conversation_id[s], duration_min[s])),
                     Append(old, Entry(conversation_id[t], duration_min[t])) }

\* two sessions of 29 and 25 minutes on a record of 58: the record says 83
C27_Witness ==
    /\ BothWrote(1, 2)
    /\ snapshot[1].exists /\ snapshot[1].monthlyMinutes = 58
    /\ duration_min = <<29, 25>>
    /\ voice_usage[user[1]].monthlyMinutes = 58 + 25
    /\ Len(voice_usage[user[1]].sessions) = 3

\* ------------------------------------------------------------ lazy reset
\* C28: a stored record of another month reads as {current month, zero
\* minutes, no sessions}; the access check that reads it leaves the store
\* as it is and admits the pro user, whatever total the old record holds
C28_LazyReset ==
    /\ [](\A u \in Users, cur \in FirstMonth..(FirstMonth + MaxRollovers) :
             (voice_usage[u].exists /\ voice_usage[u].month # cur) =>
                 get_voice_usage(voice_usage[u], cur) = UsageDoc(cur, 0, <<>>))
    /\ [][\A s \in Sessions :
             (pc[s] = "usage_read" /\ pc'[s] # "usage_read") =>
                 /\ voice_usage' = voice_usage
                 /\ (voice_usage[user[s]].exists /\ voice_usage[user[s]].month # month') =>
                        /\ usage'[s] = 0
                        /\ pc'[s] = "conv_exists"
                        /\ toClient'[s] = toClient[s] /\ ~wsClosed'[s]]_vars

\* a pro user with 60 minutes in the month before is admitted; the record
\* still shows the old month and its 60 minutes
C28_Witness ==
    /\ pc[1] = "conv_exists" /\ user[1] = "pro_u"
    /\ usage[1] = 0
    /\ month = FirstMonth + 1
    /\ voice_usage["pro_u"].exists
    /\ voice_usage["pro_u"].month = FirstMonth
    /\ voice_usage["pro_u"].monthlyMinutes = VOICE_MONTHLY_MINUTES_LIMIT

\* ---------------------------------------------------- remaining-time notices
\* the time check of the upstream pump at elapsed time e is inside the
\* window of the plan of the session's user
InWindow(s, e) ==
    LET left == 10 * (session_max_minutes[s] - e) IN
    \/ PlanOf(user[s]) = "free" /\ 9 <= left /\ left <= 11
    \/ PlanOf(user[s]) = "pro" /\ 49 <= left /\ left <= 51

\* the upstream pump has just made the time check of a message and goes on:
\* it came from the last send of the message, or read the clock anew
CheckPassed(s) ==
    /\ pc[s] = "relay" /\ pc'[s] = "relay"
    /\ g2c'[s] \in {"recv", "send_warn"}
    /\ g2cMsg'[s] = NoMsg
    /\ \/ g2c[s] \in {"send_audio", "send_in", "send_out", "send_turn"}
       \/ g2c[s] = "recv" /\ clock'[s] # clock[s]

IsWarning(f) == f.type = "transcript" /\ f.data \in WarningTexts

\* C29: a message checked below the limit gets a notice exactly when the
\* remaining time is inside the window of the plan, whether or not a notice
\* was sent before; the notice is the one worded for the plan, sent to the
\* client and not collected as a fragment, and the pump then waits for the
\* next message
C29_NoticeInWindow ==
    /\ [](\A s \in Sessions :
             (pc[s] = "relay" /\ g2c[s] = "send_warn") => InWindow(s, clock[s]))
    /\ [][\A s \in Sessions :
             /\ CheckPassed(s) => (g2c'[s] = "send_warn" <=> InWindow(s, clock'[s]))
             /\ (pc[s] = "relay" /\ pc'[s] = "relay" /\ g2c[s] = "send_warn"
                     /\ g2c'[s] # "send_warn" /\ ~clientGone[s]) =>
                    /\ g2c'[s] = "recv"
                    /\ Len(toClient'[s]) = Len(toClient[s]) + 1
                    /\ IsWarning(toClient'[s][Len(toClient'[s])])
                    /\ toClient'[s][Len(toClient'[s])].data[1] =
                           (IF PlanOf(user[s]) = "free"
                            THEN "[1 minute remaining in your free session]"
                            ELSE "[5 minutes remaining in session]")
                    /\ transcript_turns'[s] = transcript_turns[s]]_vars

\* two upstream messages were handled at the 25th minute of a pro session:
\* the client has two notices
C29_Witness ==
    /\ PlanOf(user[1]) = "pro"
    /\ clock[1] = VOICE_SESSION_MAX_MINUTES - 5
    /\ Len(SelectSeq(toClient[1], IsWarning)) = 2

\* ------------------------------------------------------ stored messages
\* the text of the turn has a character that is not white space
HasVisibleText(turn) == \E i \in 1..Len(turn[2]) : turn[2][i] # " "

\* C30: the messages stored for the conversation are, at every moment of
\* the bookkeeping, the first of the consolidated turns that are not blank,
\* in order, role and text as consolidated, one add_message call each; once
\* the save loop is through without a failure they are all of them
C30_StoredOnceInOrder ==
    \A s \in Sessions : AfterRelay(s) =>
        LET kept == SelectSeq(consolidated[s], HasVisibleText)
            stored == messages[conversation_id[s]]
        IN  /\ Len(stored) <= Len(kept)
            /\ stored = SubSeq(kept, 1, Len(stored))
            /\ Calls(s, "add_message") = Len(stored)
            /\ pc[s] = "save" =>
                   /\ Len(stored) < Len(kept)
                   /\ consolidated[s][saveIdx[s]] = kept[Len(stored) + 1]
            /\ (pc[s] \in {"title_gen", "title_put", "usage_get", "usage_put"}
                   \/ (pc[s] \in {"end", "done"} /\ saveIdx[s] = 0))
               => stored = kept

\* three consolidated turns, the middle one blank: the two others are
\* stored, in order
C30_Witness ==
    /\ pc[1] = "done"
    /\ Len(consolidated[1]) = 3
    /\ ~HasVisibleText(consolidated[1][2])
    /\ messages[conversation_id[1]] = <<consolidated[1][1], consolidated[1][3]>>

\* ------------------------------------------------------ handshake reply
\* C31: a first upstream message that decodes but is not the
\* acknowledgement does not fail the handshake: the step sends nothing to
\* the client, closes neither connection and starts the relay; the message
\* is not kept for relaying, the upstream pump waits for the next one
C31_UnexpectedReplyAccepted ==
    [][\A s \in Sessions :
          (pc[s] = "setup_recv" /\ setup_data'[s] = "serverContent") =>
              /\ pc'[s] = "relay"
              /\ session_active'[s]
              /\ toClient'[s] = <<>>
              /\ ~wsClosed'[s]
              /\ gemini_ws'[s] = "open"
              /\ g2cMsg'[s] = NoMsg
              /\ g2c'[s] = "recv"]_vars

\* the handshake took a message of another shape and the relay then
\* forwarded a later upstream message to the client
C31_Witness ==
    /\ setup_data[1] = "serverContent"
    /\ toClient[1] # <<>>
    /\ IsRelayed(toClient[1][1])

\* ------------------------------------------------ nothing before the handshake
\* the frames of the relay that reached the client of s
RelayedTo(s) == SelectSeq(toClient[s], IsRelayed)

\* C32: the setup frame is the first frame on the upstream connection; as
\* long as no reply to it has been received, nothing else was sent upstream
\* and no audio, transcript or turn end reached the client; every step that
\* forwards a frame in either direction is a step of the relay
C32_NothingBeforeHandshake ==
    /\ [](\A s \in Sessions :
             /\ toGemini[s] # <<>> => toGemini[s][1] = SetupFrame
             /\ setup_data[s] = None =>
                    /\ toGemini[s] \in {<<>>, <<SetupFrame>>}
                    /\ RelayedTo(s) = <<>>)
    /\ [][\A s \in Sessions :
             ((toGemini'[s] # toGemini[s] /\ pc[s] # "setup_send")
                  \/ RelayedTo(s)' # RelayedTo(s)) =>
                 /\ pc[s] = "relay"
                 /\ setup_data[s] # None
                 /\ toGemini[s] # <<>>]_vars

\* after the handshake an audio chunk went upstream behind the setup frame
\* and an upstream audio part reached the client
C32_Witness ==
    /\ setup_data[1] = "setupComplete"
    /\ Len(toGemini[1]) >= 2
    /\ toGemini[1][1] = SetupFrame
    /\ toGemini[1][2].type = "audio"
    /\ \E i \in 1..Len(toClient[1]) : IsAudio(toClient[1][i])

\* ------------------------------------------------ roles of stored messages
\* C33: the messages stored for the session's conversation never have the
\* same role twice in a row, whatever fragments the upstream sent, blank
\* ones included
C33_StoredRolesAlternate ==
    \A s \in Sessions : AfterRelay(s) =>
        LET stored == messages[conversation_id[s]]
        IN  \A i \in 1..(Len(stored) - 1) : stored[i][1] # stored[i + 1][1]

\* ------------------------------------------------ upstream closed at return
\* C34: when the handler has returned or raised, an upstream connection it
\* had opened is closed, by the handler or already by the upstream
C34_UpstreamClosedAtReturn ==
    \A s \in Sessions :
        (pc[s] \in Returned /\ gemini_ws[s] = "open") => upstreamGone[s]

\* ------------------------------------------------ delivered and collected
\* the fragments delivered to the client of s, as (role, text) pairs
Delivered(s) ==
    LET sent == SelectSeq(toClient[s], IsFragment)
    IN  [i \in 1..Len(sent) |-> <<sent[i].role, sent[i].data>>]

\* C35: the fragments delivered to the client, notices left out, are the
\* first of the collected fragments, all of them or all but the newest; one
\* is missing only while its send is pending, or after the upstream pump was
\* stopped at that send (it raised, or the handler was cancelled)
C35_DeliveredIsPrefix ==
    \A s \in Sessions :
        LET n == Len(Delivered(s))
            turns == transcript_turns[s]
        IN  /\ n <= Len(turns)
            /\ Len(turns) <= n + 1
            /\ Delivered(s) = SubSeq(turns, 1, n)
            /\ (Len(turns) = n + 1 /\ pc[s] = "relay") =>
                   g2c[s] \in {"send_in", "send_out", "done"}
            /\ (Len(turns) = n + 1 /\ pc[s] = "relay" /\ g2c[s] = "done") =>
                   clientGone[s]

\* the client left while a fragment was being sent to it: the send raised,
\* the fragment is collected and was not delivered
C35_Witness ==
    /\ pc[1] = "relay" /\ g2c[1] = "done" /\ clientGone[1]
    /\ Len(transcript_turns[1]) = 2
    /\ Len(Delivered(1)) = 1

\* ------------------------------------------------ total and session list
RECURSIVE SumDurations(_)
\* the sum of the durations of the entries of a session list
SumDurations(ss) ==
    IF ss = <<>> THEN 0 ELSE ss[1].duration + SumDurations(Tail(ss))

\* C36: the total of every stored usage record is the sum of the durations
\* of the entries of its session list, durations being whole minutes; this
\* holds across a change of month and when two sessions of a user read and
\* write the record in any order
C36_TotalIsSumOfEntries ==
    \A u \in Users :
        voice_usage[u].exists =>
            voice_usage[u].monthlyMinutes = SumDurations(voice_usage[u].sessions)

\* two sessions of a user read the same record of 58 minutes and both wrote:
\* the record has three entries and their sum as its total
C36_Witness ==
    /\ pc[1] = "done" /\ pc[2] = "done" /\ user[1] = user[2]
    /\ snapshot[1] = snapshot[2] /\ snapshot[1].exists
    /\ snapshot[1].monthlyMinutes = 58
    /\ current_month[1] = snapshot[1].month /\ current_month[2] = snapshot[1].month
    /\ Len(storeLog[1]) > 0 /\ Len(storeLog[2]) > 0
    /\ Len(voice_usage[user[1]].sessions) = 3
    /\ voice_usage[user[1]].monthlyMinutes =
           58 + voice_usage[user[1]].sessions[3].duration
    /\ voice_usage[user[1]].sessions[3].duration > 0

\* ------------------------------------------------ ownership of a conversation
\* C37: a session named for a conversation of another user ends with the
\* one frame Forbidden and no upstream attempt; a conversation a session
\* creates is owned by its user; and every message a session stores goes to
\* a conversation whose recorded owner at that moment is the session's user,
\* however the steps of two users' sessions interleave
C37_StoresOnlyToOwnConversation ==
    /\ [](\A s \in Sessions : pc[s] = "forbidden" =>
             /\ OneError(s) /\ toClient[s][1].data = "Forbidden"
             /\ gemini_ws[s] = "none")
    /\ [][\A s \in Sessions :
             /\ (pc[s] = "conv_create" /\ pc'[s] # "conv_create") =>
                    conversations'[conversation_id[s]] = user[s]
             /\ (pc[s] = "save" /\ storeLog'[s] # storeLog[s]
                     /\ messages' # messages) =>
                    conversations[conversation_id[s]] = user[s]]_vars

\* ------------------------------------------------ notices stay out of the transcript
\* the texts the handler itself words for the client during the relay
NoticeStrings ==
    { "[1 minute remaining in your free session]",
      "[5 minutes remaining in session]",
      "Free voice session complete (5 minutes)",
      "Session time limit reached (30 minutes)" }

\* no text of the (role, text) pairs holds a text worded by the handler
FreeOfNotices(turns) ==
    \A i \in 1..Len(turns) :
        \A j \in 1..Len(turns[i][2]) : turns[i][2][j] \notin NoticeStrings

\* C38: the remaining-time notices and the time-limit text go to the client
\* only: the step that sends one leaves the collected fragments as they
\* are, and neither the collected fragments, nor the consolidated turns
\* given to the title generation, nor the stored messages ever hold one
C38_NoticesNotCollected ==
    /\ [](\A s \in Sessions :
             /\ FreeOfNotices(transcript_turns[s])
             /\ FreeOfNotices(consolidated[s])
             /\ FreeOfNotices(messages[conversation_id[s]]))
    /\ [][\A s \in Sessions :
             (/\ Len(toClient'[s]) = Len(toClient[s]) + 1
              /\ \/ IsWarning(toClient'[s][Len(toClient'[s])])
                 \/ toClient'[s][Len(toClient'[s])] = LimitFrame(s)) =>
                 transcript_turns'[s] = transcript_turns[s]]_vars

\* a session in which a fragment was collected and a notice was sent has
\* stored its transcript: the one fragment
C38_Witness ==
    /\ pc[1] = "done"
    /\ \E i \in 1..Len(toClient[1]) : IsWarning(toClient[1][i])
    /\ Len(transcript_turns[1]) = 1
    /\ Len(messages[conversation_id[1]]) = 1
    /\ title[1] = "generated"

\* ------------------------------------------------ messages of another type
\* C39: the step in which the client pump takes a message that is neither
\* audio nor end_session changes nothing of the session but the pump's own
\* `data`: nothing is sent upstream or to the client, session_active and the
\* collected fragments are as before, the other tasks and the handler are
\* where they were, and the pump waits for the next message, which it can
\* take as long as the client is there and events remain
C39_OtherTypeIgnored ==
    /\ [][\A s \in Sessions :
             (c2gData'[s] = OtherType /\ c2gData[s] # OtherType) =>
                 /\ session_active[s] /\ session_active'[s]
                 /\ toGemini'[s] = toGemini[s]
                 /\ toClient'[s] = toClient[s]
                 /\ transcript_turns'[s] = transcript_turns[s]
                 /\ c2g[s] = "recv" /\ c2g'[s] = "recv"
                 /\ g2c'[s] = g2c[s] /\ ka'[s] = ka[s]
                 /\ pc'[s] = "relay"]_vars
    /\ [](\A s \in Sessions :
             (c2gData[s] = OtherType /\ pc[s] = "relay" /\ c2g[s] = "recv"
                  /\ ~clientGone[s] /\ budget[s] > 0) =>
                 ENABLED C2GRecv(s, "audio"))

\* an audio message was forwarded, then a message of another type came: the
\* session is active, the pump waits, and an event is left for it to take
C39_Witness ==
    /\ pc[1] = "relay" /\ session_active[1]
    /\ c2gData[1] = OtherType /\ c2g[1] = "recv"
    /\ Len(toGemini[1]) = 2 /\ IsAudio(toGemini[1][2])
    /\ ~clientGone[1] /\ budget[1] > 0

====
